---- MODULE Spec2Model ----
(***************************************************************************)
(* State-machine model of the browser applications of this repository:    *)
(*   "admin"  the role-aware CentralApp          (src/app.js 1-998)        *)
(*   "plans"  the CentralApp variant with plans and no per-operation role  *)
(*            check                              (src/app.js 1000-1501)    *)
(*   "basic"  the oldest CentralApp variant      (src/unnamed/part_000)    *)
(*   "shop"   the shop "Loja Virtual Segura"     (src/app.js 1503-2782)    *)
(* A page runs exactly one of them (the variable app) and leaves the        *)
(* variables of the others alone.  The handlers are methods and functions  *)
(* that the page exposes (window.app, global functions), so the model lets *)
(* each of them run in any state, whatever the page displays; SpecSoAdmin  *)
(* alone follows the page that checkAuthStatus displays.  Every            *)
(* handler is one action (run to completion); the timers a handler starts  *)
(* are pending entries that fire as actions of their own.                  *)
(*                                                                         *)
(* Text that the code inspects (trim, length, parseInt, regular            *)
(* expressions, the password hash) is a sequence of one-character strings; *)
(* text that is only stored and compared is a TLA+ string.  Prices are in  *)
(* centavos.  Date.now() is the counter relogio: it advances between two   *)
(* handlers that each generate an id; only the continuation of an import   *)
(* of a site, which waits for no user, can read the value again.           *)
(***************************************************************************)
EXTENDS Integers, Sequences, FiniteSets, TLC

VARIABLES
    app,             \* which application the page runs: "admin", "plans", "basic" or "shop"
    ev,              \* the last handler that ran and its outcome (the message it showed)
    relogio,         \* Date.now()
    calc,            \* a call of a function on its own: its name, arguments and results
    \* ---- CentralApp variants: AppState and the DOM fields the handlers read
    users,           \* AppState.users
    plans,           \* AppState.plans
    currentUser,     \* AppState.currentUser
    lsUsers,         \* localStorage 'users'
    lsPlans,         \* localStorage 'plans'
    lsTools,         \* localStorage 'localTools'
    ssUser,          \* sessionStorage 'currentUser'
    editId,          \* createPlanForm.dataset.editId
    modalUsername,   \* editTimeModal.dataset.username
    \* ---- shop: appState, its storage and its timers
    usuarioLogado,   \* appState.usuarioLogado (a reference, see Logado)
    carrinho,        \* appState.carrinho
    produtores,      \* appState.produtores
    usuarios,        \* appState.usuarios
    pedidos,         \* appState.pedidos
    admin,           \* appState.admin
    configPagamento, \* appState.configPagamento
    lsDados,         \* localStorage 'lojaSeguraDados'
    lsConfig,        \* localStorage 'lojaPagamentoConfig'
    checkoutAberto,  \* the checkout modal is displayed
    timers,          \* pending payment timeouts (setTimeout 1500), oldest first
    fecharPendentes, \* pending timeouts that close the checkout modal (setTimeout 2000)
    \* ---- CentralApp with roles: the managed sites and their IndexedDB
    db,              \* indexedDB.open('sites-db'): "abrindo", "aberto" (this.db is set) or "falhou"
    sitesStore,      \* the object store 'sites' of the database, in key order
    managedSites,    \* this.managedSites: <<>> while undefined, else <<the list>>
    leituras,        \* getAll requests of dbGetAll that have not completed
    importando,      \* the files of handleImportSite calls that are still being read
    concluidas,      \* history: the site creations and imports whose put completed
    \* ---- history, written by no code
    submetidos       \* for each pending payment timeout, the cart when its form was submitted

vars == <<app, ev, relogio, calc, users, plans, currentUser, lsUsers, lsPlans, lsTools,
          ssUser, editId, modalUsername, usuarioLogado, carrinho, produtores, usuarios,
          pedidos, admin, configPagamento, lsDados, lsConfig, checkoutAberto, timers,
          fecharPendentes, db, sitesStore, managedSites, leituras, importando,
          concluidas, submetidos>>

adminVars ==
    <<users, plans, currentUser, lsUsers, lsPlans, lsTools, ssUser, editId, modalUsername>>

shopVars == <<usuarioLogado, carrinho, produtores, usuarios, pedidos, admin,
              configPagamento, lsDados, lsConfig, checkoutAberto, timers, fecharPendentes>>

sitesVars == <<db, sitesStore, managedSites, leituras, importando, concluidas>>

\* no function has been called on its own
SemCalculo == [op |-> "", in |-> <<>>, out |-> <<>>]

(***************************************************************************)
(* Bounds of the model.                                                    *)
(***************************************************************************)
\* ids generated in one run (users, plans, producers, items, orders)
MaxIds == 2
\* payment timeouts pending at the same time
MaxTimers == 2
\* the largest value of a plan given to convertPlanToMinutes on its own
MaxValor == 8
\* the longest cart given to the removal on its own
MaxCarrinho == 3
\* getAll requests pending at the same time
MaxLeituras == 2
\* imports whose file is being read at the same time
MaxImportacoes == 2

(***************************************************************************)
(* JavaScript numbers that may be NaN, and what JSON makes of them         *)
(***************************************************************************)
Num(n) == <<"num", n>>
JNaN == <<"NaN", 0>>
JNull == <<"null", 0>>
IsNum(x) == x[1] = "num"

\* a + b on numbers (null counts as 0, NaN is contagious)
JsAdd(a, b) ==
    IF a = JNaN \/ b = JNaN THEN JNaN
    ELSE Num((IF IsNum(a) THEN a[2] ELSE 0) + (IF IsNum(b) THEN b[2] ELSE 0))

\* JSON.parse(JSON.stringify(x)) of a number: NaN is written as null
JsonNum(x) == IF x = JNaN THEN JNull ELSE x

(***************************************************************************)
(* Text                                                                    *)
(***************************************************************************)
Digits == <<"0", "1", "2", "3", "4", "5", "6", "7", "8", "9">>
Lower == <<"a", "b", "c", "d", "e", "f", "g", "h", "i", "j", "k", "l", "m",
           "n", "o", "p", "q", "r", "s", "t", "u", "v", "w", "x", "y", "z">>
Upper == <<"A", "B", "C", "D", "E", "F", "G", "H", "I", "J", "K", "L", "M",
           "N", "O", "P", "Q", "R", "S", "T", "U", "V", "W", "X", "Y", "Z">>

IsDigit(c) == \E i \in 1..10 : Digits[i] = c
DigitVal(c) == (CHOOSE i \in 1..10 : Digits[i] = c) - 1
IsSpace(c) == c \in {" ", "\t", "\n"}

\* String.prototype.charCodeAt for the characters the model types
CharCode(c) ==
    IF \E i \in 1..26 : Lower[i] = c THEN 96 + (CHOOSE i \in 1..26 : Lower[i] = c)
    ELSE IF \E i \in 1..26 : Upper[i] = c THEN 64 + (CHOOSE i \in 1..26 : Upper[i] = c)
    ELSE IF IsDigit(c) THEN 48 + DigitVal(c)
    ELSE CASE c = " " -> 32 [] c = "\t" -> 9 [] c = "\n" -> 10 [] c = "&" -> 38
           [] c = "-" -> 45 [] c = "." -> 46 [] c = "/" -> 47 [] c = ";" -> 59
           [] c = "<" -> 60 [] c = ">" -> 62 [] c = "@" -> 64 [] c = "+" -> 43

RECURSIVE DropLeadingSpace(_)
DropLeadingSpace(s) ==
    IF s # <<>> /\ IsSpace(Head(s)) THEN DropLeadingSpace(Tail(s)) ELSE s

RECURSIVE DropTrailingSpace(_)
DropTrailingSpace(s) ==
    IF s # <<>> /\ IsSpace(s[Len(s)])
    THEN DropTrailingSpace(SubSeq(s, 1, Len(s) - 1)) ELSE s

\* String.prototype.trim
Trim(s) == DropTrailingSpace(DropLeadingSpace(s))

\* Array.prototype.find as an index: the first i with Test(s[i]), 0 when there is none
FindIndex(s, Test(_)) ==
    IF \E i \in 1..Len(s) : Test(s[i])
    THEN CHOOSE i \in 1..Len(s) : Test(s[i]) /\ \A j \in 1..(i - 1) : ~Test(s[j])
    ELSE 0

RECURSIVE DigitsValue(_, _)
\* the value of the leading run of digits of s, after the digits already read (acc)
DigitsValue(s, acc) ==
    IF s # <<>> /\ IsDigit(Head(s)) THEN DigitsValue(Tail(s), 10 * acc + DigitVal(Head(s)))
    ELSE acc

\* parseInt(text) (radix 10): leading white space, an optional sign, then the
\* leading digits; NaN when no digit follows
ParseInt(text) ==
    LET s == DropLeadingSpace(text)
        neg == s # <<>> /\ Head(s) = "-"
        body == IF s # <<>> /\ Head(s) \in {"-", "+"} THEN Tail(s) ELSE s
    IN  IF body = <<>> \/ ~IsDigit(Head(body)) THEN JNaN
        ELSE IF neg THEN Num(0 - DigitsValue(body, 0)) ELSE Num(DigitsValue(body, 0))

\* x || d on a number: d when x is NaN or 0
JsOr(x, d) == IF x = JNaN \/ x = Num(0) THEN Num(d) ELSE x

RECURSIVE Sanitizar(_)
\* sanitizar: div.textContent = str; return div.innerHTML  (escapes & < >)
Sanitizar(s) ==
    IF s = <<>> THEN <<>>
    ELSE (CASE Head(s) = "&" -> <<"&", "a", "m", "p", ";">>
            [] Head(s) = "<" -> <<"&", "l", "t", ";">>
            [] Head(s) = ">" -> <<"&", "g", "t", ";">>
            [] OTHER -> <<Head(s)>>) \o Sanitizar(Tail(s))

\* validarEmail: /^[^\s@]+@[^\s@]+\.[^\s@]+$/
validarEmail(email) ==
    \E i \in 1..Len(email) : \E j \in 1..Len(email) :
        /\ email[i] = "@"
        /\ email[j] = "."
        /\ 1 < i /\ i + 1 < j /\ j < Len(email)
        /\ \A k \in 1..Len(email) : k # i => email[k] # "@" /\ ~IsSpace(email[k])

\* validarSenha: at least 6 characters
validarSenha(senha) == Len(senha) >= 6

(***************************************************************************)
(* hashSenhaSimples.  The 32-bit accumulator is kept as two 16-bit halves  *)
(* <<hi, lo>> (the unsigned value is hi * 65536 + lo).                     *)
(***************************************************************************)
\* one round: hash = ((hash << 5) - hash) + char; hash = hash & hash
HashStep(h, code) ==
    LET lo == 31 * h[2] + code
        hi == 31 * h[1] + (lo \div 65536)
    IN  <<hi % 65536, lo % 65536>>

RECURSIVE HashLoop(_, _)
HashLoop(h, s) == IF s = <<>> THEN h ELSE HashLoop(HashStep(h, CharCode(Head(s))), Tail(s))

\* Math.abs of the signed 32-bit value of <<hi, lo>>, again as two halves
Abs32(h) ==
    IF h[1] < 32768 THEN h
    ELSE IF h[2] = 0 THEN <<65536 - h[1], 0>>
    ELSE <<65535 - h[1], 65536 - h[2]>>

\* 'hash_' + Math.abs(hash).toString(36): the text is determined by, and
\* determines, the absolute value, which stands for it here
hashSenhaSimples(senha) == Abs32(HashLoop(<<0, 0>>, senha))

(***************************************************************************)
(* Identifiers                                                             *)
(***************************************************************************)
\* an id made from a literal of the source ('item_001') or from Date.now()
DemoId(prefix, n) == <<prefix, "demo", n>>
NowId(prefix, t) == <<prefix, "now", t>>

(***************************************************************************)
(* Shop: the demo data of inicializarDadosParaao                           *)
(***************************************************************************)
S_joao == <<"j", "o", "a", "o", "@", "e", "x", "a", "m", "p", "l", "e", ".", "c", "o", "m">>
S_maria == <<"m", "a", "r", "i", "a", "@", "e", "x", "a", "m", "p", "l", "e", ".", "c", "o", "m">>
S_adminEmail == <<"a", "d", "m", "i", "n", "@", "l", "o", "j", "a", ".", "c", "o", "m">>
S_fazenda == <<"c", "o", "n", "t", "a", "t", "o", "@", "f", "a", "z", "e", "n", "d", "a", "v", "e", "r", "d", "e", ".", "c", "o", "m">>
S_latic == <<"v", "e", "n", "d", "a", "s", "@", "l", "a", "c", "t", "i", "c", "i", "n", "i", "o", "n", "a", "t", "u", "r", "a", "i", "s", ".", "c", "o", "m">>
S_cafe == <<"c", "a", "f", "e", "@", "a", "r", "t", "e", "s", "a", "n", "a", "l", ".", "c", "o", "m">>
S_admin123 == <<"a", "d", "m", "i", "n", "1", "2", "3">>
S_senha123 == <<"s", "e", "n", "h", "a", "1", "2", "3">>
S_senha456 == <<"s", "e", "n", "h", "a", "4", "5", "6">>

\* names (the accents of the source's literals are left out)
N_administrador == <<"A", "d", "m", "i", "n", "i", "s", "t", "r", "a", "d", "o", "r">>
N_joao == <<"J", "o", "a", "o", " ", "S", "i", "l", "v", "a">>
N_maria == <<"M", "a", "r", "i", "a", " ", "S", "a", "n", "t", "o", "s">>
N_fazenda == <<"F", "a", "z", "e", "n", "d", "a", " ", "O", "r", "g", "a", "n", "i", "c", "a", " ", "V", "e", "r", "d", "e">>
N_latic == <<"L", "a", "t", "i", "c", "i", "n", "i", "o", "s", " ", "N", "a", "t", "u", "r", "a", "i", "s">>
N_cafe == <<"C", "a", "f", "e", " ", "A", "r", "t", "e", "s", "a", "n", "a", "l">>
N_maca == <<"M", "a", "c", "a", " ", "O", "r", "g", "a", "n", "i", "c", "a">>
N_cenoura == <<"C", "e", "n", "o", "u", "r", "a", " ", "O", "r", "g", "a", "n", "i", "c", "a">>
N_queijo == <<"Q", "u", "e", "i", "j", "o", " ", "M", "e", "i", "a", " ", "C", "u", "r", "a">>
N_leite == <<"L", "e", "i", "t", "e", " ", "I", "n", "t", "e", "g", "r", "a", "l">>
N_expresso == <<"C", "a", "f", "e", " ", "E", "x", "p", "r", "e", "s", "s", "o">>

AdminPadrao ==
    [id |-> DemoId("admin", 1), nome |-> N_administrador, email |-> S_adminEmail,
     senhaHash |-> hashSenhaSimples(S_admin123), role |-> "admin"]

UsuariosDemo ==
    << [id |-> DemoId("user", 1), nome |-> N_joao, email |-> S_joao,
        senhaHash |-> hashSenhaSimples(S_senha123), role |-> "user", pedidos |-> <<>>],
       [id |-> DemoId("user", 2), nome |-> N_maria, email |-> S_maria,
        senhaHash |-> hashSenhaSimples(S_senha456), role |-> "user", pedidos |-> <<>>] >>

ItemDemo(n, nome, preco, p) ==
    [id |-> DemoId("item", n), nome |-> nome, preco |-> Num(preco),
     produtorId |-> DemoId("produtor", p), disponivel |-> TRUE]

ProdutoresDemo ==
    << [id |-> DemoId("produtor", 1), nome |-> N_fazenda, email |-> S_fazenda,
        listaDeItens |-> << ItemDemo(1, N_maca, 1250, 1),
                            ItemDemo(2, N_cenoura, 800, 1) >>],
       [id |-> DemoId("produtor", 2), nome |-> N_latic, email |-> S_latic,
        listaDeItens |-> << ItemDemo(3, N_queijo, 3500, 2),
                            ItemDemo(4, N_leite, 650, 2) >>],
       [id |-> DemoId("produtor", 3), nome |-> N_cafe, email |-> S_cafe,
        listaDeItens |-> << ItemDemo(5, N_expresso, 2800, 3) >>] >>

K_stripeDemo == <<"p", "k", "_", "d", "e", "m", "o", "_", "1", "2", "3", "4", "5">>
K_mpDemo == <<"A", "P", "P", "_", "U", "S", "E", "R", "_", "I", "D", "_", "D", "E", "M", "O">>

ConfigPadrao ==
    [provedor |-> "stripe", stripePublicKey |-> K_stripeDemo,
     mercadoPagoPublicKey |-> K_mpDemo]

(***************************************************************************)
(* Shop: the principal.  appState.usuarioLogado is a reference: to an      *)
(* element of appState.usuarios (login, registration), to appState.admin   *)
(* (admin login), or, after a reload, to an object of its own that         *)
(* JSON.parse built (obj).                                                 *)
(***************************************************************************)
NoPrincipal == [ref |-> "null", idx |-> 0, obj |-> <<>>]
RefUsuario(i) == [ref |-> "usuarios", idx |-> i, obj |-> <<>>]
RefAdmin == [ref |-> "admin", idx |-> 0, obj |-> <<>>]
RefObj(o) == [ref |-> "obj", idx |-> 0, obj |-> <<o>>]

\* the object appState.usuarioLogado points to: <<>> for null, else <<object>>
Deref(ref, us, adm) ==
    CASE ref.ref = "null" -> <<>>
      [] ref.ref = "usuarios" -> <<us[ref.idx]>>
      [] ref.ref = "admin" -> <<adm>>
      [] ref.ref = "obj" -> ref.obj

Logado == Deref(usuarioLogado, usuarios, admin)

\* variant: a visitor passes for an authenticated principal
usuarioEstaLogado_visitante == TRUE

usuarioEstaLogado == usuarioLogado.ref # "null"

usuarioAtualEhAdmin_semPapel == usuarioEstaLogado

usuarioAtualEhAdmin == usuarioEstaLogado /\ Logado[1].role = "admin"

(***************************************************************************)
(* Shop: storage                                                           *)
(***************************************************************************)
JsonItem(i) == [i EXCEPT !.preco = JsonNum(i.preco)]
JsonItens(s) == [k \in 1..Len(s) |-> JsonItem(s[k])]
JsonProdutores(ps) ==
    [k \in 1..Len(ps) |-> [ps[k] EXCEPT !.listaDeItens = JsonItens(ps[k].listaDeItens)]]
JsonPedidos(os) ==
    [k \in 1..Len(os) |-> [os[k] EXCEPT !.itens = JsonItens(os[k].itens),
                                        !.total = JsonNum(os[k].total)]]

\* JSON.parse(JSON.stringify(appState)): every object is copied, so the
\* principal is written out as the value of the object it points to
JsonAppState(ref, cart, ps, us, os, adm, cfg) ==
    [usuarioLogado |-> Deref(ref, us, adm), carrinho |-> JsonItens(cart),
     produtores |-> JsonProdutores(ps), usuarios |-> us, pedidos |-> JsonPedidos(os),
     admin |-> adm, configPagamento |-> cfg]

\* salvarDados: the document localStorage holds afterwards
salvarDados(ref, cart, ps, us, os, adm, cfg) ==
    << JsonAppState(ref, cart, ps, us, os, adm, cfg) >>

(***************************************************************************)
(* Shop: what the forms can submit                                         *)
(***************************************************************************)
S_novo == <<"n", "@", "x", ".", "c">>
S_semArroba == <<"n", "x">>
S_abc == <<"a", "b", "c">>
S_AaAaAa == <<"A", "a", "A", "a", "A", "a">>
S_BBBBBB == <<"B", "B", "B", "B", "B", "B">>
N_Ana == <<"A", "n", "a">>
N_An == <<"A", "n">>
N_Horta == <<"H", "o", "r", "t", "a">>
N_Ovo == <<"O", "v", "o">>

EmailsDigitados == {S_joao, S_adminEmail, S_novo, S_semArroba}
SenhasDigitadas == {S_senha123, S_admin123, S_BBBBBB}
SenhasRegistro == {S_AaAaAa, S_abc}
NomesDigitados == {N_Ana, N_An}
NomesProdutor == {N_Horta, N_An}
EmailsProdutor == {S_fazenda, S_novo, S_semArroba}
NomesItem == {N_Ovo, <<>>}
PrecosDigitados == {<<"9", ".", "5">>, <<"0">>, <<"-", "1">>}
IdsGerados(prefix) == {NowId(prefix, t) : t \in 1..MaxIds}
ItemIdsClicados == {DemoId("item", 1), DemoId("item", 3)}
ItemIdsPainel == {DemoId("item", 1)} \cup IdsGerados("item")
ProdutorIdsClicados == {DemoId("produtor", 1)} \cup IdsGerados("produtor")
Provedores == {"mercadoPago", ""}
ChavesDigitadas == {<<"p", "k">>}

\* the checkout form filled in correctly, and the same with one field wrong
DadosValidos ==
    [nome |-> N_Ana, email |-> S_novo, telefone |-> <<"9">>, endereco |-> <<"R", "1">>,
     cidade |-> <<"S", "P">>, cep |-> <<"0", "1">>,
     cartao |-> <<"4", "1", "1", "1", " ", "1", "1", "1", "1", " ",
                  "1", "1", "1", "1", " ", "1", "1", "1", "1">>,
     validade |-> <<"1", "2", "/", "3", "0">>, cvv |-> <<"1", "2", "3">>]

DadosDigitados ==
    {DadosValidos, [DadosValidos EXCEPT !.cartao = <<"4", "1", "1", "1">>]}

(***************************************************************************)
(* Shop: pure functions                                                    *)
(***************************************************************************)
AllDigits(s, n) == Len(s) = n /\ \A i \in 1..Len(s) : IsDigit(s[i])

RequiredFields ==
    <<"nome", "email", "telefone", "endereco", "cidade", "cep", "cartao", "validade", "cvv">>

\* variant: the format of the email is checked before the required fields
validarDadosCompra_emailPrimeiro(dados) ==
    LET falta == FindIndex(RequiredFields,
                           LAMBDA f : dados[f] = <<>> \/ Trim(dados[f]) = <<>>)
    IN  IF ~validarEmail(dados.email) THEN "Email invalido"
        ELSE IF falta # 0 THEN "Campo " \o RequiredFields[falta] \o " obrigatorio"
        ELSE IF ~AllDigits(SelectSeq(dados.cartao, LAMBDA c : ~IsSpace(c)), 16)
             THEN "Numero de cartao invalido (16 digitos)"
        ELSE IF ~(Len(dados.validade) = 5 /\ AllDigits(SubSeq(dados.validade, 1, 2), 2)
                  /\ dados.validade[3] = "/" /\ AllDigits(SubSeq(dados.validade, 4, 5), 2))
             THEN "Validade invalida (MM/AA)"
        ELSE IF ~AllDigits(dados.cvv, 3) THEN "CVV invalido (3 digitos)"
        ELSE ""

\* validarDadosCompra: the error of the first check that fails, "" when none does
validarDadosCompra(dados) ==
    LET falta == FindIndex(RequiredFields,
                           LAMBDA f : dados[f] = <<>> \/ Trim(dados[f]) = <<>>)
    IN  IF falta # 0 THEN "Campo " \o RequiredFields[falta] \o " obrigatorio"
        ELSE IF ~validarEmail(dados.email) THEN "Email invalido"
        ELSE IF ~AllDigits(SelectSeq(dados.cartao, LAMBDA c : ~IsSpace(c)), 16)
             THEN "Numero de cartao invalido (16 digitos)"
        ELSE IF ~(Len(dados.validade) = 5 /\ AllDigits(SubSeq(dados.validade, 1, 2), 2)
                  /\ dados.validade[3] = "/" /\ AllDigits(SubSeq(dados.validade, 4, 5), 2))
             THEN "Validade invalida (MM/AA)"
        ELSE IF ~AllDigits(dados.cvv, 3) THEN "CVV invalido (3 digitos)"
        ELSE ""

\* the object handleCheckoutForm builds from the form
DadosDoFormulario(raw) ==
    [nome |-> Sanitizar(raw.nome), email |-> Sanitizar(raw.email),
     telefone |-> Sanitizar(raw.telefone), endereco |-> Sanitizar(raw.endereco),
     cidade |-> Sanitizar(raw.cidade), cep |-> Sanitizar(raw.cep),
     cartao |-> SelectSeq(raw.cartao, IsDigit), validade |-> raw.validade, cvv |-> raw.cvv]

\* parseFloat(text), in centavos, for texts with at most two decimals
ParseFloat(text) ==
    LET s == DropLeadingSpace(text)
        neg == s # <<>> /\ Head(s) = "-"
        body == IF s # <<>> /\ Head(s) \in {"-", "+"} THEN Tail(s) ELSE s
        nInt == IF \E i \in 1..Len(body) : ~IsDigit(body[i])
                THEN (CHOOSE i \in 1..Len(body) :
                         ~IsDigit(body[i]) /\ \A j \in 1..(i - 1) : IsDigit(body[j])) - 1
                ELSE Len(body)
        rest == SubSeq(body, nInt + 1, Len(body))
        frac == IF rest # <<>> /\ Head(rest) = "." THEN Tail(rest) ELSE <<>>
        d1 == IF Len(frac) >= 1 /\ IsDigit(frac[1]) THEN DigitVal(frac[1]) ELSE 0
        d2 == IF Len(frac) >= 2 /\ IsDigit(frac[1]) /\ IsDigit(frac[2])
              THEN DigitVal(frac[2]) ELSE 0
        mag == 100 * DigitsValue(body, 0) + 10 * d1 + d2
    IN  IF nInt = 0 /\ ~(frac # <<>> /\ IsDigit(frac[1])) THEN JNaN
        ELSE Num(IF neg THEN 0 - mag ELSE mag)

RECURSIVE SomaPrecos(_, _)
\* carrinho.reduce((total, item) => total + item.preco, acc)
SomaPrecos(itens, acc) ==
    IF itens = <<>> THEN acc ELSE SomaPrecos(Tail(itens), JsAdd(acc, Head(itens).preco))

calcularTotalCarrinho(cart) == SomaPrecos(cart, Num(0))

\* atualizarUI: with no principal it empties the cart
atualizarUI(ref, cart) == IF ref.ref = "null" THEN <<>> ELSE cart

BuscarItem_semEstoque(ps, itemId) ==
    LET achou(p) == FindIndex(p.listaDeItens, LAMBDA i : i.id = itemId) # 0
        pi == FindIndex(ps, achou)
    IN  IF pi = 0 THEN <<>>
        ELSE LET it == ps[pi].listaDeItens[FindIndex(ps[pi].listaDeItens,
                                                     LAMBDA i : i.id = itemId)]
             IN  << [id |-> it.id, nome |-> it.nome, preco |-> it.preco,
                     produtorId |-> it.produtorId, disponivel |-> it.disponivel,
                     produtorNome |-> ps[pi].nome] >>

\* adicionarAoCarrinho's search: <<>> or <<the cart line>> of the first producer
\* whose first item of that id is available
BuscarItem(ps, itemId) ==
    LET achou(p) == LET k == FindIndex(p.listaDeItens, LAMBDA i : i.id = itemId)
                    IN  k # 0 /\ p.listaDeItens[k].disponivel
        pi == FindIndex(ps, achou)
    IN  IF pi = 0 THEN <<>>
        ELSE LET it == ps[pi].listaDeItens[FindIndex(ps[pi].listaDeItens,
                                                     LAMBDA i : i.id = itemId)]
             IN  << [id |-> it.id, nome |-> it.nome, preco |-> it.preco,
                     produtorId |-> it.produtorId, disponivel |-> it.disponivel,
                     produtorNome |-> ps[pi].nome] >>

MarcarVendido_semBaixa(ps, linha) == ps

\* one round of finalizarCompraComSucesso's stock loop
MarcarVendido(ps, linha) ==
    LET pi == FindIndex(ps, LAMBDA p : p.id = linha.produtorId)
    IN  IF pi = 0 THEN ps
        ELSE LET ii == FindIndex(ps[pi].listaDeItens, LAMBDA i : i.id = linha.id)
             IN  IF ii = 0 THEN ps
                 ELSE [ps EXCEPT ![pi].listaDeItens[ii].disponivel = FALSE]

\* variant: only the first line of the order is taken out of stock
AtualizarEstoque_soPrimeira(ps, itens) ==
    IF itens = <<>> THEN ps ELSE MarcarVendido(ps, Head(itens))

RECURSIVE AtualizarEstoque(_, _)
AtualizarEstoque(ps, itens) ==
    IF itens = <<>> THEN ps ELSE AtualizarEstoque(MarcarVendido(ps, Head(itens)), Tail(itens))

\* the order finalizarCompraComSucesso builds
NovoPedido(t, comprador, dados, cart) ==
    [id |-> NowId("pedido", t), usuarioId |-> comprador.id, usuarioNome |-> dados.nome,
     usuarioEmail |-> dados.email, itens |-> cart, total |-> calcularTotalCarrinho(cart),
     status |-> "confirmado", endereco |-> dados.endereco, cidade |-> dados.cidade]

(***************************************************************************)
(* Shop: handlers                                                          *)
(***************************************************************************)
Ev(op, res) == [op |-> op, res |-> res]

\* the handler showed a message (or threw) and changed nothing
ShopRecusa(op, res) ==
    /\ ev' = Ev(op, res)
    /\ UNCHANGED <<relogio, shopVars>>

\* salvarDados() at the end of a handler, on the state the handler leaves
Persistir ==
    lsDados' = salvarDados(usuarioLogado', carrinho', produtores', usuarios', pedidos',
                           admin', configPagamento')

\* variant: the password is not compared
handleLoginForm_semSenha(emailRaw, senha) ==
    LET email == Sanitizar(emailRaw)
        i == FindIndex(usuarios, LAMBDA u : u.email = email)
    IN  IF ~validarEmail(email) THEN ShopRecusa("handleLoginForm", "Email invalido")
        ELSE IF i = 0 THEN ShopRecusa("handleLoginForm", "Usuario nao encontrado")
        ELSE /\ usuarioLogado' = RefUsuario(i)
             /\ UNCHANGED <<relogio, carrinho, produtores, usuarios, pedidos, admin,
                            configPagamento, lsConfig, checkoutAberto, timers,
                            fecharPendentes>>
             /\ Persistir
             /\ ev' = Ev("handleLoginForm", "Login realizado com sucesso!")

handleLoginForm(emailRaw, senha) ==
    LET email == Sanitizar(emailRaw)
        i == FindIndex(usuarios, LAMBDA u : u.email = email)
    IN  IF ~validarEmail(email) THEN ShopRecusa("handleLoginForm", "Email invalido")
        ELSE IF i = 0 THEN ShopRecusa("handleLoginForm", "Usuario nao encontrado")
        ELSE IF usuarios[i].senhaHash # hashSenhaSimples(senha)
             THEN ShopRecusa("handleLoginForm", "Senha incorreta")
        ELSE /\ usuarioLogado' = RefUsuario(i)
             /\ UNCHANGED <<relogio, carrinho, produtores, usuarios, pedidos, admin,
                            configPagamento, lsConfig, checkoutAberto, timers,
                            fecharPendentes>>
             /\ Persistir
             /\ ev' = Ev("handleLoginForm", "Login realizado com sucesso!")

handleRegistroForm(nomeRaw, emailRaw, senha, confirmar) ==
    LET nome == Sanitizar(nomeRaw)
        email == Sanitizar(emailRaw)
    IN  IF nome = <<>> \/ Len(nome) < 3
        THEN ShopRecusa("handleRegistroForm", "Nome deve ter pelo menos 3 caracteres")
        ELSE IF ~validarEmail(email) THEN ShopRecusa("handleRegistroForm", "Email invalido")
        ELSE IF ~validarSenha(senha)
             THEN ShopRecusa("handleRegistroForm", "Senha deve ter pelo menos 6 caracteres")
        ELSE IF senha # confirmar
             THEN ShopRecusa("handleRegistroForm", "Senhas nao coincidem")
        ELSE IF \E k \in 1..Len(usuarios) : usuarios[k].email = email
             THEN ShopRecusa("handleRegistroForm", "Email ja registrado")
        ELSE /\ relogio < MaxIds
             /\ relogio' = relogio + 1
             /\ usuarios' = Append(usuarios,
                    [id |-> NowId("user", relogio'), nome |-> nome, email |-> email,
                     senhaHash |-> hashSenhaSimples(senha), role |-> "user",
                     pedidos |-> <<>>])
             /\ usuarioLogado' = RefUsuario(Len(usuarios'))
             /\ UNCHANGED <<carrinho, produtores, pedidos, admin, configPagamento,
                            lsConfig, checkoutAberto, timers, fecharPendentes>>
             /\ Persistir
             /\ ev' = Ev("handleRegistroForm", "Cadastro realizado com sucesso!")

handleLoginAdminForm(emailRaw, senha) ==
    LET email == Sanitizar(emailRaw)
    IN  IF ~validarEmail(email) THEN ShopRecusa("handleLoginAdminForm", "Email invalido")
        ELSE IF admin.email # email
             THEN ShopRecusa("handleLoginAdminForm", "Admin nao encontrado")
        ELSE IF admin.senhaHash # hashSenhaSimples(senha)
             THEN ShopRecusa("handleLoginAdminForm", "Senha incorreta")
        ELSE /\ usuarioLogado' = RefAdmin
             /\ UNCHANGED <<relogio, carrinho, produtores, usuarios, pedidos, admin,
                            configPagamento, lsConfig, checkoutAberto, timers,
                            fecharPendentes>>
             /\ Persistir
             /\ ev' = Ev("handleLoginAdminForm", "Login admin realizado com sucesso!")

\* variant: the logout leaves the cart as it is
handleLogoutLoja_mantemCarrinho ==
    /\ usuarioLogado' = NoPrincipal
    /\ UNCHANGED <<relogio, carrinho, produtores, usuarios, pedidos, admin, configPagamento,
                   lsConfig, checkoutAberto, timers, fecharPendentes>>
    /\ Persistir
    /\ ev' = Ev("handleLogout", "")

\* the shop's handleLogout
handleLogoutLoja ==
    /\ usuarioLogado' = NoPrincipal
    /\ carrinho' = <<>>
    /\ UNCHANGED <<relogio, produtores, usuarios, pedidos, admin, configPagamento,
                   lsConfig, checkoutAberto, timers, fecharPendentes>>
    /\ Persistir
    /\ ev' = Ev("handleLogout", "")

\* variant: the cart is not searched for the item
adicionarAoCarrinho_semBusca(itemId) ==
    LET itemEncontrado == BuscarItem(produtores, itemId)
    IN  IF ~usuarioEstaLogado
        THEN ShopRecusa("adicionarAoCarrinho", "Voce precisa estar logado para adicionar itens")
        ELSE IF itemEncontrado = <<>>
             THEN ShopRecusa("adicionarAoCarrinho", "Item nao disponivel")
        ELSE /\ carrinho' = Append(carrinho, itemEncontrado[1])
             /\ ev' = Ev("adicionarAoCarrinho", "Produto adicionado ao carrinho!")
             /\ UNCHANGED <<relogio, usuarioLogado, produtores, usuarios, pedidos, admin,
                            configPagamento, lsDados, lsConfig, checkoutAberto, timers,
                            fecharPendentes>>

adicionarAoCarrinho(itemId) ==
    LET itemEncontrado == BuscarItem(produtores, itemId)
    IN  IF ~usuarioEstaLogado
        THEN ShopRecusa("adicionarAoCarrinho", "Voce precisa estar logado para adicionar itens")
        ELSE IF itemEncontrado = <<>>
             THEN ShopRecusa("adicionarAoCarrinho", "Item nao disponivel")
        ELSE IF \E k \in 1..Len(carrinho) : carrinho[k].id = itemId
             THEN ShopRecusa("adicionarAoCarrinho", "Item ja esta no carrinho")
        ELSE /\ carrinho' = Append(carrinho, itemEncontrado[1])
             /\ ev' = Ev("adicionarAoCarrinho", "Produto adicionado ao carrinho!")
             /\ UNCHANGED <<relogio, usuarioLogado, produtores, usuarios, pedidos, admin,
                            configPagamento, lsDados, lsConfig, checkoutAberto, timers,
                            fecharPendentes>>

\* variant: only the first line of that id is removed
FiltrarCarrinho_primeiraLinha(cart, itemId) ==
    LET k == FindIndex(cart, LAMBDA item : item.id = itemId)
    IN  IF k = 0 THEN cart ELSE SubSeq(cart, 1, k - 1) \o SubSeq(cart, k + 1, Len(cart))

\* appState.carrinho.filter(item => item.id !== itemId)
FiltrarCarrinho(cart, itemId) == SelectSeq(cart, LAMBDA item : item.id # itemId)

removerDoCarrinho(itemId) ==
    /\ carrinho' = FiltrarCarrinho(carrinho, itemId)
    /\ ev' = Ev("removerDoCarrinho", "")
    /\ UNCHANGED <<relogio, usuarioLogado, produtores, usuarios, pedidos, admin,
                   configPagamento, lsDados, lsConfig, checkoutAberto, timers,
                   fecharPendentes>>

abrirCheckout ==
    IF Len(carrinho) = 0 THEN ShopRecusa("abrirCheckout", "Carrinho vazio")
    ELSE /\ checkoutAberto' = TRUE
         /\ ev' = Ev("abrirCheckout", "")
         /\ UNCHANGED <<relogio, usuarioLogado, carrinho, produtores, usuarios, pedidos,
                        admin, configPagamento, lsDados, lsConfig, timers, fecharPendentes>>

fecharCheckout ==
    /\ checkoutAberto
    /\ checkoutAberto' = FALSE
    /\ ev' = Ev("fecharCheckout", "")
    /\ UNCHANGED <<relogio, usuarioLogado, carrinho, produtores, usuarios, pedidos,
                   admin, configPagamento, lsDados, lsConfig, timers, fecharPendentes>>

\* processarPagamento: the payment outcome is decided when the timeout fires
processarPagamento(dados) ==
    /\ Len(timers) < MaxTimers
    /\ timers' = Append(timers, dados)
    /\ ev' = Ev("handleCheckoutForm", "Processando pagamento...")
    /\ UNCHANGED <<relogio, usuarioLogado, carrinho, produtores, usuarios, pedidos,
                   admin, configPagamento, lsDados, lsConfig, checkoutAberto,
                   fecharPendentes>>

\* the checkout form is submitted from the displayed checkout modal
handleCheckoutForm(raw) ==
    /\ checkoutAberto
    /\ LET dados == DadosDoFormulario(raw)
           erro == validarDadosCompra(dados)
       IN  IF erro # "" THEN ShopRecusa("handleCheckoutForm", erro)
           ELSE processarPagamento(dados)

finalizarCompraComSucesso(dados) ==
    IF ~usuarioEstaLogado
    THEN \* appState.usuarioLogado.id throws before anything is written
         /\ ev' = Ev("finalizarCompraComSucesso", "TypeError")
         /\ UNCHANGED <<relogio, usuarioLogado, carrinho, produtores, usuarios, pedidos,
                        admin, configPagamento, lsDados, lsConfig, checkoutAberto,
                        fecharPendentes>>
    ELSE LET novoPedido == NovoPedido(relogio', Logado[1], dados, carrinho)
         IN  /\ relogio < MaxIds
             /\ relogio' = relogio + 1
             /\ produtores' = AtualizarEstoque(produtores, novoPedido.itens)
             /\ pedidos' = Append(pedidos, novoPedido)
             /\ IF Logado[1].role = "user"
                THEN CASE usuarioLogado.ref = "usuarios" ->
                            /\ usuarios' = [usuarios EXCEPT ![usuarioLogado.idx].pedidos =
                                               Append(@, novoPedido.id)]
                            /\ UNCHANGED usuarioLogado
                       [] usuarioLogado.ref = "obj" ->
                            /\ usuarioLogado' = [usuarioLogado EXCEPT !.obj[1].pedidos =
                                                    Append(@, novoPedido.id)]
                            /\ UNCHANGED usuarios
                ELSE UNCHANGED <<usuarioLogado, usuarios>>
             /\ carrinho' = <<>>
             /\ fecharPendentes' = fecharPendentes + 1
             /\ UNCHANGED <<admin, configPagamento, lsConfig, checkoutAberto>>
             /\ Persistir
             /\ ev' = Ev("finalizarCompraComSucesso", "Compra realizada com sucesso!")

pagamentoRecusado_esvazia ==
    /\ ev' = Ev("processarPagamento", "Pagamento recusado. Tente novamente.")
    /\ carrinho' = <<>>
    /\ UNCHANGED <<relogio, usuarioLogado, produtores, usuarios, pedidos, admin,
                   configPagamento, lsDados, lsConfig, checkoutAberto, fecharPendentes>>

\* the else branch of processarPagamento's timeout: only a message
pagamentoRecusado ==
    /\ ev' = Ev("processarPagamento", "Pagamento recusado. Tente novamente.")
    /\ UNCHANGED <<relogio, usuarioLogado, carrinho, produtores, usuarios, pedidos,
                   admin, configPagamento, lsDados, lsConfig, checkoutAberto,
                   fecharPendentes>>

\* the callback of processarPagamento's setTimeout; sucesso is Math.random() < 0.85
TimerPagamento(sucesso) ==
    /\ timers # <<>>
    /\ timers' = Tail(timers)
    /\ IF sucesso THEN finalizarCompraComSucesso(Head(timers))
       ELSE pagamentoRecusado

\* the callback of finalizarCompraComSucesso's setTimeout: fecharCheckout(); atualizarUI()
TimerFechar ==
    /\ fecharPendentes > 0
    /\ fecharPendentes' = fecharPendentes - 1
    /\ checkoutAberto' = FALSE
    /\ carrinho' = atualizarUI(usuarioLogado, carrinho)
    /\ ev' = Ev("fecharCheckout", "timeout")
    /\ UNCHANGED <<relogio, usuarioLogado, produtores, usuarios, pedidos, admin,
                   configPagamento, lsDados, lsConfig, timers>>

(***************************************************************************)
(* Shop: the admin panel                                                   *)
(***************************************************************************)
handleNovoProductorForm(nomeRaw, emailRaw) ==
    LET nome == Sanitizar(nomeRaw)
        email == Sanitizar(emailRaw)
    IN  IF ~usuarioAtualEhAdmin THEN ShopRecusa("handleNovoProductorForm", "Acesso negado")
        ELSE IF nome = <<>> \/ Len(nome) < 3
             THEN ShopRecusa("handleNovoProductorForm", "Nome invalido")
        ELSE IF ~validarEmail(email)
             THEN ShopRecusa("handleNovoProductorForm", "Email invalido")
        ELSE IF \E k \in 1..Len(produtores) : produtores[k].email = email
             THEN ShopRecusa("handleNovoProductorForm", "Email ja cadastrado")
        ELSE /\ relogio < MaxIds
             /\ relogio' = relogio + 1
             /\ produtores' = Append(produtores,
                    [id |-> NowId("produtor", relogio'), nome |-> nome, email |-> email,
                     listaDeItens |-> <<>>])
             /\ UNCHANGED <<usuarioLogado, carrinho, usuarios, pedidos, admin,
                            configPagamento, lsConfig, checkoutAberto, timers,
                            fecharPendentes>>
             /\ Persistir
             /\ ev' = Ev("handleNovoProductorForm", "Produtor cadastrado com sucesso!")

\* produtorId is the hidden field abrirModalNovoItem filled in
handleNovoItemForm(produtorId, nomeRaw, descricaoRaw, precoRaw) ==
    LET nome == Sanitizar(nomeRaw)
        descricao == Sanitizar(descricaoRaw)
        preco == ParseFloat(precoRaw)
        pi == FindIndex(produtores, LAMBDA p : p.id = produtorId)
    IN  IF ~usuarioAtualEhAdmin THEN ShopRecusa("handleNovoItemForm", "Acesso negado")
        ELSE IF nome = <<>> \/ descricao = <<>>
             THEN ShopRecusa("handleNovoItemForm", "Preencha todos os campos")
        ELSE IF IsNum(preco) /\ preco[2] <= 0
             THEN ShopRecusa("handleNovoItemForm", "Preco deve ser maior que zero")
        ELSE IF pi = 0 THEN ShopRecusa("handleNovoItemForm", "Produtor nao encontrado")
        ELSE /\ relogio < MaxIds
             /\ relogio' = relogio + 1
             /\ produtores' = [produtores EXCEPT ![pi].listaDeItens = Append(@,
                    [id |-> NowId("item", relogio'), nome |-> nome, preco |-> preco,
                     produtorId |-> produtorId, disponivel |-> TRUE])]
             /\ UNCHANGED <<usuarioLogado, carrinho, usuarios, pedidos, admin,
                            configPagamento, lsConfig, checkoutAberto, timers,
                            fecharPendentes>>
             /\ Persistir
             /\ ev' = Ev("handleNovoItemForm", "Item adicionado com sucesso!")

removerProdutor(produtorId, confirmado) ==
    IF ~usuarioAtualEhAdmin THEN ShopRecusa("removerProdutor", "Acesso negado")
    ELSE IF ~confirmado THEN ShopRecusa("removerProdutor", "")
    ELSE /\ produtores' = SelectSeq(produtores, LAMBDA p : p.id # produtorId)
         /\ UNCHANGED <<relogio, usuarioLogado, carrinho, usuarios, pedidos, admin,
                        configPagamento, lsConfig, checkoutAberto, timers, fecharPendentes>>
         /\ Persistir
         /\ ev' = Ev("removerProdutor", "removido")

removerItemProdutor(produtorId, itemId) ==
    LET pi == FindIndex(produtores, LAMBDA p : p.id = produtorId)
    IN  IF ~usuarioAtualEhAdmin THEN ShopRecusa("removerItemProdutor", "Acesso negado")
        ELSE IF pi = 0 THEN ShopRecusa("removerItemProdutor", "")
        ELSE /\ produtores' = [produtores EXCEPT ![pi].listaDeItens =
                                   SelectSeq(@, LAMBDA i : i.id # itemId)]
             /\ UNCHANGED <<relogio, usuarioLogado, carrinho, usuarios, pedidos, admin,
                            configPagamento, lsConfig, checkoutAberto, timers,
                            fecharPendentes>>
             /\ Persistir
             /\ ev' = Ev("removerItemProdutor", "removido")

handleConfigPagamentoForm(provedor, stripeKeyRaw, mpKeyRaw) ==
    LET stripeKey == Sanitizar(stripeKeyRaw)
        mpKey == Sanitizar(mpKeyRaw)
    IN  IF ~usuarioAtualEhAdmin THEN ShopRecusa("handleConfigPagamentoForm", "Acesso negado")
        ELSE IF provedor = ""
             THEN ShopRecusa("handleConfigPagamentoForm", "Selecione um provedor")
        ELSE /\ configPagamento' =
                    [provedor |-> provedor,
                     stripePublicKey |-> IF stripeKey # <<>> THEN stripeKey
                                         ELSE configPagamento.stripePublicKey,
                     mercadoPagoPublicKey |-> IF mpKey # <<>> THEN mpKey
                                              ELSE configPagamento.mercadoPagoPublicKey]
             /\ lsConfig' = <<configPagamento'>>
             /\ ev' = Ev("handleConfigPagamentoForm", "Configuracoes salvas com sucesso!")
             /\ UNCHANGED <<relogio, usuarioLogado, carrinho, produtores, usuarios, pedidos,
                            admin, lsDados, checkoutAberto, timers, fecharPendentes>>

(***************************************************************************)
(* Shop: page load                                                         *)
(***************************************************************************)
\* inicializarDadosParaao's appState, as the document salvarDados writes
DocPadrao ==
    JsonAppState(NoPrincipal, <<>>, ProdutoresDemo, UsuariosDemo, <<>>, AdminPadrao,
                 ConfigPadrao)

\* carregarConfigPagamento
carregarConfigPagamento(stored) == IF stored # <<>> THEN stored[1] ELSE ConfigPadrao

\* the DOMContentLoaded handler on a reload of the page: carregarDados,
\* carregarConfigPagamento, atualizarUI.  The timeouts of the old page are gone.
Recarregar ==
    LET doc == IF lsDados # <<>> THEN lsDados[1] ELSE DocPadrao
    IN  /\ usuarioLogado' = (IF doc.usuarioLogado = <<>> THEN NoPrincipal
                             ELSE RefObj(doc.usuarioLogado[1]))
        /\ carrinho' = atualizarUI(usuarioLogado', doc.carrinho)
        /\ produtores' = doc.produtores
        /\ usuarios' = doc.usuarios
        /\ pedidos' = doc.pedidos
        /\ admin' = doc.admin
        /\ configPagamento' = carregarConfigPagamento(lsConfig)
        /\ lsDados' = <<doc>>
        /\ checkoutAberto' = FALSE
        /\ timers' = <<>>
        /\ fecharPendentes' = 0
        /\ ev' = Ev("DOMContentLoaded", "")
        /\ UNCHANGED <<relogio, lsConfig>>

InitShop ==
    /\ app = "shop"
    /\ ev = Ev("DOMContentLoaded", "")
    /\ relogio = 0
    /\ calc = SemCalculo
    /\ users = <<>> /\ plans = <<>> /\ currentUser = <<>>
    /\ lsUsers = <<>> /\ lsPlans = <<>> /\ lsTools = <<>> /\ ssUser = <<>>
    /\ editId = <<>> /\ modalUsername = <<>>
    /\ usuarioLogado = NoPrincipal
    /\ carrinho = <<>>
    /\ produtores = ProdutoresDemo
    /\ usuarios = UsuariosDemo
    /\ pedidos = <<>>
    /\ admin = AdminPadrao
    /\ configPagamento = ConfigPadrao
    /\ lsDados = <<DocPadrao>>
    /\ lsConfig = <<>>
    /\ checkoutAberto = FALSE
    /\ timers = <<>>
    /\ fecharPendentes = 0
    /\ db = "abrindo" /\ sitesStore = <<>> /\ managedSites = <<>> /\ leituras = 0
    /\ importando = <<>> /\ concluidas = 0
    /\ submetidos = <<>>

\* a handler of the shop runs on a page of the shop
NaLoja == app = "shop" /\ UNCHANGED <<app, calc, adminVars, sitesVars, submetidos>>

\* the customer's side of the shop: accounts, cart, checkout and its timers
NextCompra ==
    \/ NaLoja /\ \E e \in EmailsDigitados, s \in SenhasDigitadas :
          handleLoginForm(e, s)
    \/ NaLoja /\ handleLogoutLoja
    \/ NaLoja /\ \E i \in ItemIdsClicados : adicionarAoCarrinho(i)
    \/ NaLoja /\ \E i \in ItemIdsClicados : removerDoCarrinho(i)
    \/ NaLoja /\ abrirCheckout
    \/ NaLoja /\ fecharCheckout
    \/ NaLoja /\ \E d \in DadosDigitados : handleCheckoutForm(d)
    \/ NaLoja /\ \E ok \in BOOLEAN : TimerPagamento(ok)
    \/ NaLoja /\ TimerFechar
    \/ NaLoja /\ Recarregar

SpecCompra == InitShop /\ [][NextCompra]_vars

\* the shop's admin panel, with the logins that lead to it
NextPainel ==
    \/ NaLoja /\ \E e \in EmailsDigitados, s \in SenhasDigitadas :
          handleLoginForm(e, s)
    \/ NaLoja /\ \E e \in EmailsDigitados, s \in SenhasDigitadas :
          handleLoginAdminForm(e, s)
    \/ NaLoja /\ handleLogoutLoja
    \/ NaLoja /\ \E n \in NomesProdutor, e \in EmailsProdutor :
          handleNovoProductorForm(n, e)
    \/ NaLoja /\ \E p \in ProdutorIdsClicados, n \in NomesItem, d \in NomesItem,
          v \in PrecosDigitados : handleNovoItemForm(p, n, d, v)
    \/ NaLoja /\ \E p \in ProdutorIdsClicados, c \in BOOLEAN :
          removerProdutor(p, c)
    \/ NaLoja /\ \E p \in ProdutorIdsClicados, i \in ItemIdsPainel :
          removerItemProdutor(p, i)
    \/ NaLoja /\ \E p \in Provedores, k \in ChavesDigitadas :
          handleConfigPagamentoForm(p, k, <<>>)
    \/ NaLoja /\ Recarregar

SpecPainel == InitShop /\ [][NextPainel]_vars

\* checkout interleaved with the admin taking items and producers out of stock
\* (an item the admin adds carries a fresh id: see handleNovoItemForm)
ItemIdsEstoque == {DemoId("item", 1), DemoId("item", 3)}
LoginsEstoque == {<<S_joao, S_senha123>>}
LoginsAdminEstoque == {<<S_adminEmail, S_admin123>>}

NextEstoque ==
    \/ NaLoja /\ \E l \in LoginsEstoque : handleLoginForm(l[1], l[2])
    \/ NaLoja /\ \E l \in LoginsAdminEstoque : handleLoginAdminForm(l[1], l[2])
    \/ NaLoja /\ handleLogoutLoja
    \/ NaLoja /\ \E i \in ItemIdsEstoque : adicionarAoCarrinho(i)
    \/ NaLoja /\ \E i \in ItemIdsEstoque : removerDoCarrinho(i)
    \/ NaLoja /\ abrirCheckout
    \/ NaLoja /\ fecharCheckout
    \/ NaLoja /\ handleCheckoutForm(DadosValidos)
    \/ NaLoja /\ \E ok \in BOOLEAN : TimerPagamento(ok)
    \/ NaLoja /\ TimerFechar
    \/ NaLoja /\ removerItemProdutor(DemoId("produtor", 1), DemoId("item", 1))
    \/ NaLoja /\ removerProdutor(DemoId("produtor", 1), TRUE)

SpecEstoque == InitShop /\ [][NextEstoque]_vars

\* the prices the administrator types for a new item: 9.5 and nothing at all
PrecosDoItem == {<<"9", ".", "5">>, <<>>}
ItemIdsVenda == {DemoId("item", 1)} \cup IdsGerados("item")

\* the administrator adds items to the stock and customers buy them
NextVenda ==
    \/ NaLoja /\ \E l \in LoginsEstoque : handleLoginForm(l[1], l[2])
    \/ NaLoja /\ \E l \in LoginsAdminEstoque : handleLoginAdminForm(l[1], l[2])
    \/ NaLoja /\ handleLogoutLoja
    \/ NaLoja /\ \E p \in PrecosDoItem :
                    handleNovoItemForm(DemoId("produtor", 1), N_Ovo, N_Ovo, p)
    \/ NaLoja /\ \E i \in ItemIdsVenda : adicionarAoCarrinho(i)
    \/ NaLoja /\ abrirCheckout
    \/ NaLoja /\ handleCheckoutForm(DadosValidos)
    \/ NaLoja /\ \E ok \in BOOLEAN : TimerPagamento(ok)
    \/ NaLoja /\ TimerFechar
    \/ NaLoja /\ Recarregar

SpecVenda == InitShop /\ [][NextVenda]_vars

\* the cart changes while payments are pending; submetidos keeps, for each
\* pending timeout, the cart and the principal of the moment its form was submitted
NaLojaComHistorico == app = "shop" /\ UNCHANGED <<app, calc, adminVars, sitesVars>>

\* what is true of the shop when a checkout form is submitted
Submissao ==
    [carrinho |-> carrinho,
     comprador |-> IF usuarioEstaLogado THEN <<Logado[1].id>> ELSE <<>>]

NextEnvio ==
    \/ NaLoja /\ \E l \in LoginsEstoque : handleLoginForm(l[1], l[2])
    \/ NaLoja /\ \E i \in ItemIdsClicados : adicionarAoCarrinho(i)
    \/ NaLoja /\ \E i \in ItemIdsClicados : removerDoCarrinho(i)
    \/ NaLoja /\ abrirCheckout
    \/ NaLojaComHistorico /\ handleCheckoutForm(DadosValidos)
                          /\ submetidos' = Append(submetidos, Submissao)
    \/ NaLojaComHistorico /\ (\E ok \in BOOLEAN : TimerPagamento(ok))
                          /\ submetidos' = Tail(submetidos)
    \/ NaLoja /\ TimerFechar

SpecEnvio == InitShop /\ [][NextEnvio]_vars

\* customers log out, log in and register while payments are pending
LoginsTroca == {<<S_joao, S_senha123>>, <<S_maria, S_senha456>>}

NextTroca ==
    \/ NaLoja /\ \E l \in LoginsTroca : handleLoginForm(l[1], l[2])
    \/ NaLoja /\ handleRegistroForm(N_Ana, S_novo, S_AaAaAa, S_AaAaAa)
    \/ NaLoja /\ handleLogoutLoja
    \/ NaLoja /\ adicionarAoCarrinho(DemoId("item", 1))
    \/ NaLoja /\ abrirCheckout
    \/ NaLojaComHistorico /\ handleCheckoutForm(DadosValidos)
                          /\ submetidos' = Append(submetidos, Submissao)
    \/ NaLojaComHistorico /\ (\E ok \in BOOLEAN : TimerPagamento(ok))
                          /\ submetidos' = Tail(submetidos)
    \/ NaLoja /\ TimerFechar

SpecTroca == InitShop /\ [][NextTroca]_vars

\* checkout forms with no, one or several fields wrong
FormulariosDigitados ==
    {DadosValidos,
     [DadosValidos EXCEPT !.email = S_semArroba, !.cvv = <<" ">>],
     [DadosValidos EXCEPT !.nome = <<>>, !.email = S_semArroba, !.cartao = <<"4", "1">>],
     [DadosValidos EXCEPT !.email = S_semArroba, !.cartao = <<"4", "1">>,
                          !.validade = <<"1", "2", "3", "0">>],
     [DadosValidos EXCEPT !.cartao = <<"a", "b">>, !.validade = <<"1", "2", "3", "0">>],
     [DadosValidos EXCEPT !.cartao = <<"4", "1">>, !.validade = <<"1", "2", "-", "3", "0">>,
                          !.cvv = <<"1", "2">>],
     [DadosValidos EXCEPT !.validade = <<"1", "2", "-", "3", "0">>, !.cvv = <<"1", "2">>],
     [DadosValidos EXCEPT !.cvv = <<"1", "2", "x">>]}

\* a customer fills a cart and submits the checkout form, right or wrong
NextValidacao ==
    \/ NaLoja /\ \E l \in LoginsEstoque : handleLoginForm(l[1], l[2])
    \/ NaLoja /\ handleLogoutLoja
    \/ NaLoja /\ \E i \in ItemIdsClicados : adicionarAoCarrinho(i)
    \/ NaLoja /\ abrirCheckout
    \/ NaLoja /\ fecharCheckout
    \/ NaLoja /\ \E d \in FormulariosDigitados : handleCheckoutForm(d)
    \/ NaLoja /\ \E ok \in BOOLEAN : TimerPagamento(ok)
    \/ NaLoja /\ TimerFechar

SpecValidacao == InitShop /\ [][NextValidacao]_vars

(***************************************************************************)
(* Properties of the shop's checkout                                       *)
(***************************************************************************)
\* the step is an approved payment that finalizarCompraComSucesso completed
CompraAprovada ==
    /\ ev'.op = "finalizarCompraComSucesso"
    /\ ev'.res = "Compra realizada com sucesso!"

\* the step is a declined payment
CompraRecusada ==
    /\ ev'.op = "processarPagamento"
    /\ ev'.res = "Pagamento recusado. Tente novamente."

\* the step is a valid checkout form handed to processarPagamento
CompraSubmetida ==
    /\ ev'.op = "handleCheckoutForm"
    /\ ev'.res = "Processando pagamento..."

\* every item of every producer
ItensDe(ps) ==
    UNION { {ps[p].listaDeItens[i] : i \in 1..Len(ps[p].listaDeItens)} : p \in 1..Len(ps) }

\* the stock flags of the items with this id (empty when the item is gone)
Disponiveis(ps, itemId) == {it.disponivel : it \in {x \in ItensDe(ps) : x.id = itemId}}

\* every line of the cart stands for an item that is in stock
CarrinhoDisponivel ==
    /\ carrinho # <<>>
    /\ \A k \in 1..Len(carrinho) : Disponiveis(produtores, carrinho[k].id) = {TRUE}

\* C1: a valid checkout form changes neither stock, cart nor orders, and when
\* its payment is approved for an authenticated principal whose non-empty cart
\* holds available items, every cart line's item is unavailable afterwards,
\* exactly one order is appended whose lines are the cart lines, and the
\* cart is empty.
C1_CompraAprovada ==
    [][ /\ CompraSubmetida => UNCHANGED <<produtores, carrinho, pedidos>>
        /\ (CompraAprovada /\ usuarioEstaLogado /\ CarrinhoDisponivel) =>
              /\ \A k \in 1..Len(carrinho) :
                    Disponiveis(produtores', carrinho[k].id) = {FALSE}
              /\ Len(pedidos') = Len(pedidos) + 1
              /\ SubSeq(pedidos', 1, Len(pedidos)) = pedidos
              /\ pedidos'[Len(pedidos')].itens = carrinho
              /\ carrinho' = <<>> ]_vars

\* an approved order of two lines has just been written
C1_Witness ==
    /\ ev.op = "finalizarCompraComSucesso"
    /\ ev.res = "Compra realizada com sucesso!"
    /\ pedidos # <<>>
    /\ Len(pedidos[Len(pedidos)].itens) = 2
    /\ \A k \in 1..2 :
          Disponiveis(produtores, pedidos[Len(pedidos)].itens[k].id) = {FALSE}
    /\ carrinho = <<>>

\* C2: neither submitting a checkout nor its decline changes the availability
\* of any item, the cart or the orders, so after a declined checkout they are
\* what they were before it was submitted.
C2_CompraRecusada ==
    [][ (CompraSubmetida \/ CompraRecusada) =>
            UNCHANGED <<produtores, carrinho, pedidos>> ]_vars

\* a payment has just been declined with the cart still populated
C2_Witness ==
    /\ ev.op = "processarPagamento"
    /\ ev.res = "Pagamento recusado. Tente novamente."
    /\ carrinho # <<>>
    /\ timers = <<>>

\* C4: every order has at least one line.
C4_PedidoComLinhas == \A k \in 1..Len(pedidos) : Len(pedidos[k].itens) >= 1

(***************************************************************************)
(* Properties of the shop's admin panel                                    *)
(***************************************************************************)
PainelOps ==
    {"handleNovoProductorForm", "handleNovoItemForm", "removerProdutor",
     "removerItemProdutor", "handleConfigPagamentoForm"}

\* the role of the principal, "" with no principal
PapelDoPrincipal == IF Logado = <<>> THEN "" ELSE Logado[1].role

\* C7: creating a producer, adding an item, removing a producer, removing an
\* item and changing the payment configuration, invoked with no principal or
\* with a principal whose role is not admin, are denied and leave producers,
\* items, the payment configuration and their stored copies unchanged.
C7_PainelSoAdmin ==
    [][ (ev'.op \in PainelOps /\ PapelDoPrincipal # "admin") =>
            /\ ev'.res = "Acesso negado"
            /\ UNCHANGED <<produtores, configPagamento, lsDados, lsConfig>> ]_vars

\* a logged-in customer has just been denied a panel operation
C7_Witness ==
    /\ ev.op \in PainelOps
    /\ ev.res = "Acesso negado"
    /\ PapelDoPrincipal = "user"

(***************************************************************************)
(* Properties of the stock                                                 *)
(***************************************************************************)
\* the item ids of the lines of an order
IdsDoPedido(o) == {o.itens[k].id : k \in 1..Len(o.itens)}

\* C3: no item id appears in the lines of two different orders.
C3_SemVendaDupla ==
    \A a \in 1..Len(pedidos), b \in 1..Len(pedidos) :
        a # b => IdsDoPedido(pedidos[a]) \cap IdsDoPedido(pedidos[b]) = {}

\* two orders have been written, each with a line, and their items are sold
C3_Witness ==
    /\ Len(pedidos) = 2
    /\ \A k \in 1..2 : IdsDoPedido(pedidos[k]) # {}
    /\ \A k \in 1..2 : \A id \in IdsDoPedido(pedidos[k]) :
          Disponiveis(produtores, id) \subseteq {FALSE}

(***************************************************************************)
(* CentralApp: AppState                                                    *)
(* A user is [id, username, password, loginTime, isAdmin] and a plan is    *)
(* [id, name, value, unit]; createdAt is not modelled.  currentUser and    *)
(* the session copy keep the two fields of the principal that the code     *)
(* reads, username and isAdmin, which no handler ever assigns.             *)
(***************************************************************************)
U_admin == <<"a", "d", "m", "i", "n">>
N_padrao == <<"P", "a", "d", "r", "a", "o", " ", "3", "0", " ", "m", "i", "n", "u", "t", "o", "s">>
N_diario == <<"D", "i", "a", "r", "i", "o">>
N_semanal == <<"S", "e", "m", "a", "n", "a", "l">>
N_mensal == <<"M", "e", "n", "s", "a", "l">>

getDefaultUsers ==
    << [id |-> DemoId("user", 1), username |-> U_admin, password |-> S_admin123,
        loginTime |-> Num(60), isAdmin |-> TRUE] >>

getDefaultPlans ==
    << [id |-> DemoId("plan", 1), name |-> N_padrao, value |-> 30, unit |-> "minutes"],
       [id |-> DemoId("plan", 2), name |-> N_diario, value |-> 1, unit |-> "days"],
       [id |-> DemoId("plan", 3), name |-> N_semanal, value |-> 1, unit |-> "weeks"],
       [id |-> DemoId("plan", 4), name |-> N_mensal, value |-> 1, unit |-> "months"] >>

\* JSON.parse(JSON.stringify(users)): a NaN allowance is written as null
JsonUsers(us) == [k \in 1..Len(us) |-> [us[k] EXCEPT !.loginTime = JsonNum(@)]]

\* saveUsers / savePlans: what localStorage holds afterwards
saveUsers(us) == <<JsonUsers(us)>>
savePlans(ps) == <<ps>>

\* setCurrentUser: the principal and its session copy
setCurrentUser(user) == << [username |-> user.username, isAdmin |-> user.isAdmin] >>

\* this.state.currentUser && this.state.currentUser.isAdmin
\* variant: any authenticated principal passes for an administrator
EhAdmin_qualquerPrincipal == currentUser # <<>>

EhAdmin == currentUser # <<>> /\ currentUser[1].isAdmin

Max(a, b) == IF a >= b THEN a ELSE b

\* variant: a month of 31 days
convertPlanToMinutes_mes31(plan) ==
    LET v == plan.value
    IN  CASE plan.unit = "minutes" -> Max(1, v)
          [] plan.unit = "hours" -> Max(1, v * 60)
          [] plan.unit = "days" -> Max(1, v * 24 * 60)
          [] plan.unit = "weeks" -> Max(1, v * 7 * 24 * 60)
          [] plan.unit = "months" -> Max(1, v * 31 * 24 * 60)
          [] OTHER -> Max(1, v)

\* variant: the sign of the value is dropped
convertPlanToMinutes_valorAbsoluto(plan) ==
    Max(1, (IF plan.value < 0 THEN 0 - plan.value ELSE plan.value)
           * (CASE plan.unit = "hours" -> 60
                [] plan.unit = "days" -> 24 * 60
                [] plan.unit = "weeks" -> 7 * 24 * 60
                [] plan.unit = "months" -> 30 * 24 * 60
                [] OTHER -> 1))

\* variant: the unit of the plan is ignored
convertPlanToMinutes_semUnidade(plan) == Max(1, plan.value)

\* convertPlanToMinutes; plan.value is an integer, so Math.round changes nothing
convertPlanToMinutes(plan) ==
    LET v == plan.value
    IN  CASE plan.unit = "minutes" -> Max(1, v)
          [] plan.unit = "hours" -> Max(1, v * 60)
          [] plan.unit = "days" -> Max(1, v * 24 * 60)
          [] plan.unit = "weeks" -> Max(1, v * 7 * 24 * 60)
          [] plan.unit = "months" -> Max(1, v * 30 * 24 * 60)
          [] OTHER -> Max(1, v)

\* a value of the select planSelect: no plan, 'custom' or the id of a plan
SelNenhum == [kind |-> "", id |-> DemoId("plan", 0)]
SelCustom == [kind |-> "custom", id |-> DemoId("plan", 0)]
SelPlano(id) == [kind |-> "plan", id |-> id]

\* populatePlanSelect: the options of the select, in the role-aware page
populatePlanSelect(ps) == {SelNenhum, SelCustom} \cup {SelPlano(ps[k].id) : k \in 1..Len(ps)}

\* populatePlanSelect of the page without roles: its placeholder is 'custom' too
populatePlanSelectPlans(ps) == {SelCustom} \cup {SelPlano(ps[k].id) : k \in 1..Len(ps)}

\* the handler showed a message and changed nothing
CentralRecusa(op, res) ==
    /\ ev' = Ev(op, res)
    /\ UNCHANGED <<relogio, adminVars>>

(***************************************************************************)
(* CentralApp with roles (src/app.js 1-998): handlers                      *)
(***************************************************************************)
handleLogin(usernameRaw, password) ==
    LET username == Trim(usernameRaw)
        i == FindIndex(users, LAMBDA u : u.username = username /\ u.password = password)
    IN  IF i # 0
        THEN /\ currentUser' = setCurrentUser(users[i])
             /\ ssUser' = setCurrentUser(users[i])
             /\ ev' = Ev("handleLogin", "")
             /\ UNCHANGED <<relogio, users, plans, lsUsers, lsPlans, lsTools, editId,
                            modalUsername>>
        ELSE CentralRecusa("handleLogin", "Usuario ou senha incorretos!")

handleLogout(confirmado) ==
    IF confirmado
    THEN /\ currentUser' = <<>>
         /\ ssUser' = <<>>
         /\ ev' = Ev("handleLogout", "")
         /\ UNCHANGED <<relogio, users, plans, lsUsers, lsPlans, lsTools, editId,
                        modalUsername>>
    ELSE CentralRecusa("handleLogout", "")

\* variant: the new account is appended without the search for its username
criarUsuario_semUnicidade(op, username, password, loginTime) ==
    IF Len(username) < 3
    THEN CentralRecusa(op, "Usuario deve ter pelo menos 3 caracteres!")
    ELSE IF Len(password) < 4
         THEN CentralRecusa(op, "Senha deve ter pelo menos 4 caracteres!")
    ELSE /\ relogio < MaxIds
         /\ relogio' = relogio + 1
         /\ users' = Append(users,
                [id |-> NowId("user", relogio'), username |-> username,
                 password |-> password, loginTime |-> loginTime, isAdmin |-> FALSE])
         /\ lsUsers' = saveUsers(users')
         /\ ev' = Ev(op, "criado com sucesso!")
         /\ UNCHANGED <<plans, currentUser, lsPlans, lsTools, ssUser, editId, modalUsername>>

\* variant: the new account is appended without the check of the password length
criarUsuario_semSenhaMinima(op, username, password, loginTime) ==
    IF Len(username) < 3
    THEN CentralRecusa(op, "Usuario deve ter pelo menos 3 caracteres!")
    ELSE IF \E k \in 1..Len(users) : users[k].username = username
         THEN CentralRecusa(op, "Este usuario ja existe!")
    ELSE /\ relogio < MaxIds
         /\ relogio' = relogio + 1
         /\ users' = Append(users,
                [id |-> NowId("user", relogio'), username |-> username,
                 password |-> password, loginTime |-> loginTime, isAdmin |-> FALSE])
         /\ lsUsers' = saveUsers(users')
         /\ ev' = Ev(op, "criado com sucesso!")
         /\ UNCHANGED <<plans, currentUser, lsPlans, lsTools, ssUser, editId, modalUsername>>

\* the checks of the new account and its creation, which the three pages share
\* word for word (src/app.js 1172-1200 and src/unnamed/part_000 143-171)
criarUsuario(op, username, password, loginTime) ==
    IF Len(username) < 3
    THEN CentralRecusa(op, "Usuario deve ter pelo menos 3 caracteres!")
    ELSE IF Len(password) < 4
         THEN CentralRecusa(op, "Senha deve ter pelo menos 4 caracteres!")
    ELSE IF \E k \in 1..Len(users) : users[k].username = username
         THEN CentralRecusa(op, "Este usuario ja existe!")
    ELSE /\ relogio < MaxIds
         /\ relogio' = relogio + 1
         /\ users' = Append(users,
                [id |-> NowId("user", relogio'), username |-> username,
                 password |-> password, loginTime |-> loginTime, isAdmin |-> FALSE])
         /\ lsUsers' = saveUsers(users')
         /\ ev' = Ev(op, "criado com sucesso!")
         /\ UNCHANGED <<plans, currentUser, lsPlans, lsTools, ssUser, editId, modalUsername>>

\* sel is the value of planSelect, newLoginTime the text of the field newLoginTime
handleCreateUser(usernameRaw, password, sel, newLoginTime) ==
    LET username == Trim(usernameRaw)
        customTime == JsOr(ParseInt(newLoginTime), 0)
        pi == FindIndex(plans, LAMBDA p : p.id = sel.id)
        loginTime == IF sel.kind = "custom" THEN customTime
                     ELSE IF pi # 0 THEN Num(convertPlanToMinutes(plans[pi])) ELSE Num(0)
    IN  IF sel.kind = ""
        THEN CentralRecusa("handleCreateUser", "Selecione um plano para o usuario.")
        ELSE IF sel.kind = "custom" /\ customTime[2] < 1
             THEN CentralRecusa("handleCreateUser",
                                "Tempo custom deve ser pelo menos 1 minuto.")
        ELSE IF ~EhAdmin
             THEN CentralRecusa("handleCreateUser",
                                "Apenas administradores podem criar usuarios.")
        ELSE criarUsuario("handleCreateUser", username, password, loginTime)

editLoginTime(username) ==
    /\ modalUsername' = <<username>>
    /\ ev' = Ev("editLoginTime", "")
    /\ UNCHANGED <<relogio, users, plans, currentUser, lsUsers, lsPlans, lsTools, ssUser,
                   editId>>

\* texto is the text of the field editLoginTime when the save button is pressed
saveLoginTime(texto) ==
    LET newTime == ParseInt(texto)
        i == IF modalUsername = <<>> THEN 0
             ELSE FindIndex(users, LAMBDA u : u.username = modalUsername[1])
    IN  IF IsNum(newTime) /\ newTime[2] < 1
        THEN CentralRecusa("saveLoginTime", "O tempo deve ser maior que 0!")
        ELSE IF i = 0 THEN CentralRecusa("saveLoginTime", "")
        ELSE /\ users' = [users EXCEPT ![i].loginTime = newTime]
             /\ lsUsers' = saveUsers(users')
             /\ ev' = Ev("saveLoginTime", "salvo")
             /\ UNCHANGED <<relogio, plans, currentUser, lsPlans, lsTools, ssUser, editId,
                            modalUsername>>

\* the body of deleteUser once the dialog is answered
removerUsuario(username, confirmado) ==
    IF ~confirmado THEN CentralRecusa("deleteUser", "")
    ELSE /\ users' = SelectSeq(users, LAMBDA u : u.username # username)
         /\ lsUsers' = saveUsers(users')
         /\ ev' = Ev("deleteUser", "deletado")
         /\ UNCHANGED <<relogio, plans, currentUser, lsPlans, lsTools, ssUser, editId,
                        modalUsername>>

deleteUser(username, confirmado) ==
    IF ~EhAdmin
    THEN CentralRecusa("deleteUser", "Apenas administradores podem deletar usuarios.")
    ELSE removerUsuario(username, confirmado)

handleChangeAdminPassword(newPass, confirmPass) ==
    LET i == FindIndex(users, LAMBDA u : u.isAdmin)
    IN  IF ~EhAdmin THEN CentralRecusa("handleChangeAdminPassword", "Apenas admin")
        ELSE IF Len(newPass) < 4
             THEN CentralRecusa("handleChangeAdminPassword",
                                "Senha deve ter pelo menos 4 caracteres")
        ELSE IF newPass # confirmPass
             THEN CentralRecusa("handleChangeAdminPassword", "Senhas nao coincidem")
        ELSE IF i = 0 THEN CentralRecusa("handleChangeAdminPassword", "")
        ELSE /\ users' = [users EXCEPT ![i].password = newPass]
             /\ lsUsers' = saveUsers(users')
             /\ ev' = Ev("handleChangeAdminPassword", "Senha do admin atualizada.")
             /\ UNCHANGED <<relogio, plans, currentUser, lsPlans, lsTools, ssUser, editId,
                            modalUsername>>

\* the plan the form makes of its fields
PlanoDoFormulario(id, nameRaw, valueText, unit) ==
    [id |-> id, name |-> Trim(nameRaw), value |-> JsOr(ParseInt(valueText), 1)[2],
     unit |-> unit]

handleCreatePlan(nameRaw, valueText, unit) ==
    LET name == Trim(nameRaw)
        pi == IF editId = <<>> THEN 0 ELSE FindIndex(plans, LAMBDA p : p.id = editId[1])
    IN  IF ~EhAdmin
        THEN CentralRecusa("handleCreatePlan",
                           "Apenas administradores podem gerenciar planos.")
        ELSE IF name = <<>>
             THEN CentralRecusa("handleCreatePlan", "Nome do plano e obrigatorio")
        ELSE IF editId # <<>>
             THEN IF pi # 0
                  THEN /\ plans' = [plans EXCEPT ![pi] =
                                       PlanoDoFormulario(@.id, nameRaw, valueText, unit)]
                       /\ lsPlans' = savePlans(plans')
                       /\ editId' = <<>>
                       /\ ev' = Ev("handleCreatePlan", "atualizado")
                       /\ UNCHANGED <<relogio, users, currentUser, lsUsers, lsTools, ssUser,
                                      modalUsername>>
                  ELSE CentralRecusa("handleCreatePlan", "")
        ELSE /\ relogio < MaxIds
             /\ relogio' = relogio + 1
             /\ plans' = Append(plans, PlanoDoFormulario(NowId("plan", relogio'),
                                                         nameRaw, valueText, unit))
             /\ lsPlans' = savePlans(plans')
             /\ ev' = Ev("handleCreatePlan", "criado")
             /\ UNCHANGED <<users, currentUser, lsUsers, lsTools, ssUser, editId,
                            modalUsername>>

editPlan(id) ==
    IF \E k \in 1..Len(plans) : plans[k].id = id
    THEN /\ editId' = <<id>>
         /\ ev' = Ev("editPlan", "")
         /\ UNCHANGED <<relogio, users, plans, currentUser, lsUsers, lsPlans, lsTools,
                        ssUser, modalUsername>>
    ELSE CentralRecusa("editPlan", "")

cancelPlanEdit ==
    /\ editId' = <<>>
    /\ ev' = Ev("cancelPlanEdit", "")
    /\ UNCHANGED <<relogio, users, plans, currentUser, lsUsers, lsPlans, lsTools, ssUser,
                   modalUsername>>

\* variant: the users whose allowance is that of the deleted plan lose it
removerPlano_emCascata(id, confirmado) ==
    IF ~confirmado THEN CentralRecusa("deletePlan", "")
    ELSE LET pi == FindIndex(plans, LAMBDA p : p.id = id)
         IN  /\ plans' = SelectSeq(plans, LAMBDA p : p.id # id)
             /\ lsPlans' = savePlans(plans')
             /\ users' = [k \in 1..Len(users) |->
                             IF pi # 0 /\ ~users[k].isAdmin
                                /\ users[k].loginTime = Num(convertPlanToMinutes(plans[pi]))
                             THEN [users[k] EXCEPT !.loginTime = Num(0)] ELSE users[k]]
             /\ lsUsers' = saveUsers(users')
             /\ ev' = Ev("deletePlan", "deletado")
             /\ UNCHANGED <<relogio, currentUser, lsTools, ssUser, editId, modalUsername>>

\* the body of deletePlan once the dialog is answered
removerPlano(id, confirmado) ==
    IF ~confirmado THEN CentralRecusa("deletePlan", "")
    ELSE /\ plans' = SelectSeq(plans, LAMBDA p : p.id # id)
         /\ lsPlans' = savePlans(plans')
         /\ ev' = Ev("deletePlan", "deletado")
         /\ UNCHANGED <<relogio, users, currentUser, lsUsers, lsTools, ssUser, editId,
                        modalUsername>>

deletePlan(id, confirmado) ==
    IF ~EhAdmin
    THEN CentralRecusa("deletePlan", "Apenas administradores podem deletar planos.")
    ELSE removerPlano(id, confirmado)

\* the array localStorage 'localTools' parses to
FerramentasLocais == IF lsTools = <<>> THEN <<>> ELSE lsTools[1]

handleAddTool(nameRaw, pathRaw) ==
    LET name == Trim(nameRaw)
        path == Trim(pathRaw)
    IN  IF ~EhAdmin
        THEN CentralRecusa("handleAddTool",
                           "Apenas administradores podem adicionar ferramentas.")
        ELSE IF name = <<>> \/ path = <<>> THEN CentralRecusa("handleAddTool", "")
        ELSE /\ relogio < MaxIds
             /\ relogio' = relogio + 1
             /\ lsTools' = << Append(FerramentasLocais,
                                     [id |-> NowId("tool", relogio'), name |-> name,
                                      path |-> path]) >>
             /\ ev' = Ev("handleAddTool", "adicionada")
             /\ UNCHANGED <<users, plans, currentUser, lsUsers, lsPlans, ssUser, editId,
                            modalUsername>>

removeLocalTool(id) ==
    IF ~EhAdmin
    THEN CentralRecusa("removeLocalTool",
                       "Apenas administradores podem remover ferramentas.")
    ELSE /\ lsTools' = << SelectSeq(FerramentasLocais, LAMBDA x : x.id # id) >>
         /\ ev' = Ev("removeLocalTool", "removida")
         /\ UNCHANGED <<relogio, users, plans, currentUser, lsUsers, lsPlans, ssUser,
                        editId, modalUsername>>

\* the two dialogs of clearAllData are answered c1 and c2; the three pages
\* share it word for word (src/app.js 1478-1489, src/unnamed/part_000 313-324)
clearAllData(c1, c2) ==
    IF c1 /\ c2
    THEN /\ users' = getDefaultUsers
         /\ lsUsers' = saveUsers(users')
         /\ ev' = Ev("clearAllData", "Todos os dados foram resetados!")
         /\ UNCHANGED <<relogio, plans, currentUser, lsPlans, lsTools, ssUser, editId,
                        modalUsername>>
    ELSE CentralRecusa("clearAllData", "")

\* a reload of the page: new AppState() reads the storage, the form and the
\* modal are those of the fresh document
RecarregarCentral ==
    /\ users' = (IF lsUsers # <<>> THEN lsUsers[1] ELSE getDefaultUsers)
    /\ plans' = (IF app = "basic" THEN plans
                 ELSE IF lsPlans # <<>> THEN lsPlans[1] ELSE getDefaultPlans)
    /\ currentUser' = ssUser
    /\ editId' = <<>>
    /\ modalUsername' = <<>>
    /\ ev' = Ev("DOMContentLoaded", "")
    /\ UNCHANGED <<relogio, lsUsers, lsPlans, lsTools, ssUser>>

(***************************************************************************)
(* CentralApp without roles (src/app.js 1000-1501) and the oldest          *)
(* CentralApp (src/unnamed/part_000): the handlers that differ             *)
(***************************************************************************)
\* variant: any user with the right password gets in
handleLoginSoAdmin_qualquerUsuario(usernameRaw, password) ==
    LET username == Trim(usernameRaw)
        i == FindIndex(users, LAMBDA u : u.username = username /\ u.password = password)
    IN  IF i # 0
        THEN /\ currentUser' = setCurrentUser(users[i])
             /\ ssUser' = setCurrentUser(users[i])
             /\ ev' = Ev("handleLogin", "")
             /\ UNCHANGED <<relogio, users, plans, lsUsers, lsPlans, lsTools, editId,
                            modalUsername>>
        ELSE CentralRecusa("handleLogin", "Usuario ou senha incorretos!")

\* handleLogin of both: only an administrator gets in
handleLoginSoAdmin(usernameRaw, password) ==
    LET username == Trim(usernameRaw)
        i == FindIndex(users, LAMBDA u : u.username = username /\ u.password = password)
    IN  IF i # 0 /\ users[i].isAdmin
        THEN /\ currentUser' = setCurrentUser(users[i])
             /\ ssUser' = setCurrentUser(users[i])
             /\ ev' = Ev("handleLogin", "")
             /\ UNCHANGED <<relogio, users, plans, lsUsers, lsPlans, lsTools, editId,
                            modalUsername>>
        ELSE CentralRecusa("handleLogin", "Usuario ou senha incorretos!")

handleCreateUserPlans(usernameRaw, password, sel, newLoginTime) ==
    LET username == Trim(usernameRaw)
        customTime == JsOr(ParseInt(newLoginTime), 30)
        pi == FindIndex(plans, LAMBDA p : p.id = sel.id)
        loginTime == IF sel.kind = "plan" /\ pi # 0
                     THEN Num(convertPlanToMinutes(plans[pi])) ELSE customTime
    IN  criarUsuario("handleCreateUser", username, password, loginTime)

handleCreateUserBasic(usernameRaw, password, newLoginTime) ==
    criarUsuario("handleCreateUser", Trim(usernameRaw), password,
                 JsOr(ParseInt(newLoginTime), 30))

deleteUserSemPapel(username, confirmado) == removerUsuario(username, confirmado)

handleCreatePlanPlans(nameRaw, valueText, unit) ==
    IF Trim(nameRaw) = <<>>
    THEN CentralRecusa("handleCreatePlan", "Nome do plano e obrigatorio")
    ELSE /\ relogio < MaxIds
         /\ relogio' = relogio + 1
         /\ plans' = Append(plans, PlanoDoFormulario(NowId("plan", relogio'),
                                                     nameRaw, valueText, unit))
         /\ lsPlans' = savePlans(plans')
         /\ ev' = Ev("handleCreatePlan", "criado")
         /\ UNCHANGED <<users, currentUser, lsUsers, lsTools, ssUser, editId, modalUsername>>

deletePlanPlans(id, confirmado) == removerPlano(id, confirmado)

(***************************************************************************)
(* CentralApp: what the administrator types and clicks                     *)
(***************************************************************************)
U_ana == <<"a", "n", "a">>
U_anaEspacos == <<" ", "a", "n", "a", " ">>
U_Ana == <<"A", "n", "a">>
U_an == <<"a", "n">>
P_abcd == <<"a", "b", "c", "d">>
P_abc == <<"a", "b", "c">>
N_vip == <<"V", "I", "P">>

UsernamesDigitados == {U_anaEspacos, U_Ana, U_an, U_admin}
SenhasCentral == {P_abcd, P_abc}
LoginsCentral == {<<U_admin, S_admin123>>, <<U_ana, P_abcd>>, <<U_ana, P_abc>>}
TemposDigitados == {<<"5">>, <<"-", "5">>, <<>>}
NomesPlano == {N_vip, <<" ">>}
ValoresPlano == {<<"2">>, <<"-", "5">>}
UnidadesPlano == {"hours"}
PlanIdsClicados == {DemoId("plan", 3)} \cup IdsGerados("plan")
ToolIdsClicados == IdsGerados("tool")

\* the rows of the users table: the accounts that are not administrators
LinhasDaTabela == {users[k].username : k \in {j \in 1..Len(users) : ~users[j].isAdmin}}

\* the options of planSelect the administrator picks from
Selecoes(opcoes) == {x \in opcoes : x.kind # "plan" \/ x.id \in PlanIdsClicados}

InitCentral(a) ==
    /\ app = a
    /\ ev = Ev("DOMContentLoaded", "")
    /\ relogio = 0
    /\ calc = SemCalculo
    /\ users = getDefaultUsers
    /\ plans = (IF a = "basic" THEN <<>> ELSE getDefaultPlans)
    /\ currentUser = <<>>
    /\ lsUsers = <<>> /\ lsPlans = <<>> /\ lsTools = <<>> /\ ssUser = <<>>
    /\ editId = <<>> /\ modalUsername = <<>>
    /\ usuarioLogado = NoPrincipal
    /\ carrinho = <<>> /\ produtores = <<>> /\ usuarios = <<>> /\ pedidos = <<>>
    /\ admin = AdminPadrao
    /\ configPagamento = ConfigPadrao
    /\ lsDados = <<>> /\ lsConfig = <<>>
    /\ checkoutAberto = FALSE
    /\ timers = <<>>
    /\ fecharPendentes = 0
    /\ db = "abrindo" /\ sitesStore = <<>> /\ managedSites = <<>> /\ leituras = 0
    /\ importando = <<>> /\ concluidas = 0
    /\ submetidos = <<>>

\* a handler of a CentralApp runs on a page of that CentralApp
NoCentral(a) == app = a /\ UNCHANGED <<app, calc, shopVars, sitesVars, submetidos>>

\* the role-aware page: accounts and allowances
NextAdminUsuarios ==
    \/ NoCentral("admin") /\ \E l \in LoginsCentral : handleLogin(l[1], l[2])
    \/ NoCentral("admin") /\ \E c \in BOOLEAN : handleLogout(c)
    \/ NoCentral("admin") /\ \E u \in UsernamesDigitados, p \in SenhasCentral,
                                x \in Selecoes(populatePlanSelect(plans)),
                                t \in TemposDigitados : handleCreateUser(u, p, x, t)
    \/ NoCentral("admin") /\ \E u \in LinhasDaTabela : editLoginTime(u)
    \/ NoCentral("admin") /\ \E t \in TemposDigitados : saveLoginTime(t)
    \/ NoCentral("admin") /\ \E u \in LinhasDaTabela, c \in BOOLEAN : deleteUser(u, c)
    \/ NoCentral("admin") /\ \E p \in SenhasCentral, c \in SenhasCentral :
                                handleChangeAdminPassword(p, c)
    \/ NoCentral("admin") /\ \E c1 \in BOOLEAN, c2 \in BOOLEAN : clearAllData(c1, c2)
    \/ NoCentral("admin") /\ RecarregarCentral

SpecAdminUsuarios == InitCentral("admin") /\ [][NextAdminUsuarios]_vars

\* the role-aware page: plans, the accounts made from them, and local tools
NextAdminPlanos ==
    \/ NoCentral("admin") /\ \E l \in LoginsCentral : handleLogin(l[1], l[2])
    \/ NoCentral("admin") /\ \E c \in BOOLEAN : handleLogout(c)
    \/ NoCentral("admin") /\ \E x \in Selecoes(populatePlanSelect(plans)) :
                                handleCreateUser(U_ana, P_abcd, x, <<"5">>)
    \/ NoCentral("admin") /\ \E n \in NomesPlano, v \in ValoresPlano, u \in UnidadesPlano :
                                handleCreatePlan(n, v, u)
    \/ NoCentral("admin") /\ \E i \in PlanIdsClicados : editPlan(i)
    \/ NoCentral("admin") /\ cancelPlanEdit
    \/ NoCentral("admin") /\ \E i \in PlanIdsClicados, c \in BOOLEAN : deletePlan(i, c)
    \/ NoCentral("admin") /\ \E n \in NomesPlano : handleAddTool(n, N_vip)
    \/ NoCentral("admin") /\ \E i \in ToolIdsClicados : removeLocalTool(i)
    \/ NoCentral("admin") /\ RecarregarCentral

SpecAdminPlanos == InitCentral("admin") /\ [][NextAdminPlanos]_vars

\* the page without roles
NextPlans ==
    \/ NoCentral("plans") /\ \E l \in LoginsCentral : handleLoginSoAdmin(l[1], l[2])
    \/ NoCentral("plans") /\ \E c \in BOOLEAN : handleLogout(c)
    \/ NoCentral("plans") /\ \E u \in UsernamesDigitados, p \in SenhasCentral,
                                x \in Selecoes(populatePlanSelectPlans(plans)),
                                t \in TemposDigitados : handleCreateUserPlans(u, p, x, t)
    \/ NoCentral("plans") /\ \E u \in LinhasDaTabela : editLoginTime(u)
    \/ NoCentral("plans") /\ \E t \in TemposDigitados : saveLoginTime(t)
    \/ NoCentral("plans") /\ \E u \in LinhasDaTabela, c \in BOOLEAN :
                                deleteUserSemPapel(u, c)
    \/ NoCentral("plans") /\ \E n \in NomesPlano, v \in ValoresPlano, u \in UnidadesPlano :
                                handleCreatePlanPlans(n, v, u)
    \/ NoCentral("plans") /\ \E i \in PlanIdsClicados, c \in BOOLEAN : deletePlanPlans(i, c)
    \/ NoCentral("plans") /\ \E c1 \in BOOLEAN, c2 \in BOOLEAN : clearAllData(c1, c2)
    \/ NoCentral("plans") /\ RecarregarCentral

\* the oldest page
NextBasic ==
    \/ NoCentral("basic") /\ \E l \in LoginsCentral : handleLoginSoAdmin(l[1], l[2])
    \/ NoCentral("basic") /\ \E c \in BOOLEAN : handleLogout(c)
    \/ NoCentral("basic") /\ \E u \in UsernamesDigitados, p \in SenhasCentral,
                                t \in TemposDigitados : handleCreateUserBasic(u, p, t)
    \/ NoCentral("basic") /\ \E u \in LinhasDaTabela : editLoginTime(u)
    \/ NoCentral("basic") /\ \E t \in TemposDigitados : saveLoginTime(t)
    \/ NoCentral("basic") /\ \E u \in LinhasDaTabela, c \in BOOLEAN :
                                deleteUserSemPapel(u, c)
    \/ NoCentral("basic") /\ \E c1 \in BOOLEAN, c2 \in BOOLEAN : clearAllData(c1, c2)
    \/ NoCentral("basic") /\ RecarregarCentral

\* the usernames deleteUser can be called with: those of the accounts, the
\* administrator's included (the argument is text in a row's onclick attribute)
NomesDeConta == {users[k].username : k \in 1..Len(users)}

\* accounts are created, changed and deleted by any username, in the
\* role-aware page and in the oldest page
NextExclusao ==
    \/ NoCentral("admin") /\ \E l \in LoginsCentral : handleLogin(l[1], l[2])
    \/ NoCentral("admin") /\ handleLogout(TRUE)
    \/ NoCentral("admin") /\ handleCreateUser(U_ana, P_abcd, SelCustom, <<"5">>)
    \/ NoCentral("admin") /\ \E u \in LinhasDaTabela : editLoginTime(u)
    \/ NoCentral("admin") /\ saveLoginTime(<<"5">>)
    \/ NoCentral("admin") /\ \E u \in NomesDeConta, c \in BOOLEAN : deleteUser(u, c)
    \/ NoCentral("admin") /\ handleChangeAdminPassword(P_abcd, P_abcd)
    \/ NoCentral("admin") /\ \E c1 \in BOOLEAN, c2 \in BOOLEAN : clearAllData(c1, c2)
    \/ NoCentral("admin") /\ RecarregarCentral
    \/ NoCentral("basic") /\ \E l \in LoginsCentral : handleLoginSoAdmin(l[1], l[2])
    \/ NoCentral("basic") /\ handleLogout(TRUE)
    \/ NoCentral("basic") /\ handleCreateUserBasic(U_ana, P_abcd, <<"5">>)
    \/ NoCentral("basic") /\ \E u \in NomesDeConta, c \in BOOLEAN :
                                deleteUserSemPapel(u, c)
    \/ NoCentral("basic") /\ \E c1 \in BOOLEAN, c2 \in BOOLEAN : clearAllData(c1, c2)
    \/ NoCentral("basic") /\ RecarregarCentral

SpecExclusao == (InitCentral("admin") \/ InitCentral("basic")) /\ [][NextExclusao]_vars

\* checkAuthStatus, showAdminPage and showLoginPage: the page 'adminPage' is
\* the active one exactly while there is a principal, 'loginPage' otherwise
PaginaAdmin == currentUser # <<>>

\* the pages without a role check, each handler on the page that shows its form
NextSoAdmin ==
    \/ NoCentral("plans") /\ ~PaginaAdmin
          /\ \E l \in LoginsCentral : handleLoginSoAdmin(l[1], l[2])
    \/ NoCentral("plans") /\ PaginaAdmin /\ \E c \in BOOLEAN : handleLogout(c)
    \/ NoCentral("plans") /\ PaginaAdmin
          /\ \E u \in {U_ana, U_an}, x \in Selecoes(populatePlanSelectPlans(plans)) :
                handleCreateUserPlans(u, P_abcd, x, <<"5">>)
    \/ NoCentral("plans") /\ PaginaAdmin /\ \E u \in LinhasDaTabela : editLoginTime(u)
    \/ NoCentral("plans") /\ PaginaAdmin /\ \E t \in TemposDigitados : saveLoginTime(t)
    \/ NoCentral("plans") /\ PaginaAdmin
          /\ \E u \in LinhasDaTabela, c \in BOOLEAN : deleteUserSemPapel(u, c)
    \/ NoCentral("plans") /\ PaginaAdmin
          /\ \E n \in NomesPlano : handleCreatePlanPlans(n, <<"2">>, "hours")
    \/ NoCentral("plans") /\ PaginaAdmin
          /\ \E i \in PlanIdsClicados, c \in BOOLEAN : deletePlanPlans(i, c)
    \/ NoCentral("plans") /\ PaginaAdmin
          /\ \E c1 \in BOOLEAN, c2 \in BOOLEAN : clearAllData(c1, c2)
    \/ NoCentral("plans") /\ RecarregarCentral
    \/ NoCentral("basic") /\ ~PaginaAdmin
          /\ \E l \in LoginsCentral : handleLoginSoAdmin(l[1], l[2])
    \/ NoCentral("basic") /\ PaginaAdmin /\ \E c \in BOOLEAN : handleLogout(c)
    \/ NoCentral("basic") /\ PaginaAdmin
          /\ \E u \in {U_ana, U_an} : handleCreateUserBasic(u, P_abcd, <<"5">>)
    \/ NoCentral("basic") /\ PaginaAdmin /\ \E u \in LinhasDaTabela : editLoginTime(u)
    \/ NoCentral("basic") /\ PaginaAdmin /\ \E t \in TemposDigitados : saveLoginTime(t)
    \/ NoCentral("basic") /\ PaginaAdmin
          /\ \E u \in LinhasDaTabela, c \in BOOLEAN : deleteUserSemPapel(u, c)
    \/ NoCentral("basic") /\ PaginaAdmin
          /\ \E c1 \in BOOLEAN, c2 \in BOOLEAN : clearAllData(c1, c2)
    \/ NoCentral("basic") /\ RecarregarCentral

SpecSoAdmin == (InitCentral("plans") \/ InitCentral("basic")) /\ [][NextSoAdmin]_vars

\* the accounts of the shop
NextContas ==
    \/ NaLoja /\ \E e \in EmailsDigitados, s \in SenhasDigitadas : handleLoginForm(e, s)
    \/ NaLoja /\ \E n \in NomesDigitados, e \in EmailsDigitados, s \in SenhasRegistro,
                    c \in SenhasRegistro : handleRegistroForm(n, e, s, c)
    \/ NaLoja /\ \E e \in EmailsDigitados, s \in SenhasDigitadas : handleLoginAdminForm(e, s)
    \/ NaLoja /\ handleLogoutLoja
    \/ NaLoja /\ Recarregar

\* the accounts of every page of the repository
InitCadastro ==
    InitCentral("admin") \/ InitCentral("plans") \/ InitCentral("basic") \/ InitShop

NextCadastro == NextAdminUsuarios \/ NextPlans \/ NextBasic \/ NextContas

SpecCadastro == InitCadastro /\ [][NextCadastro]_vars

(***************************************************************************)
(* convertPlanToMinutes on its own                                         *)
(***************************************************************************)
\* the values and units of the plans it is given; "years" is a unit it does
\* not know
ValoresDePlano == (0 - 3)..MaxValor
UnidadesDePlano == {"minutes", "hours", "days", "weeks", "months", "years"}

\* two plans of the same unit
InitConversao ==
    /\ app = "calc"
    /\ ev = Ev("DOMContentLoaded", "")
    /\ relogio = 0
    /\ \E v1 \in ValoresDePlano, v2 \in ValoresDePlano, u \in UnidadesDePlano :
          calc = [op |-> "", out |-> <<>>,
                  in |-> << [id |-> DemoId("plan", 1), name |-> N_vip, value |-> v1,
                             unit |-> u],
                            [id |-> DemoId("plan", 2), name |-> N_vip, value |-> v2,
                             unit |-> u] >>]
    /\ users = getDefaultUsers
    /\ plans = getDefaultPlans
    /\ currentUser = <<>>
    /\ lsUsers = <<>> /\ lsPlans = <<>> /\ lsTools = <<>> /\ ssUser = <<>>
    /\ editId = <<>> /\ modalUsername = <<>>
    /\ usuarioLogado = NoPrincipal
    /\ carrinho = <<>> /\ produtores = <<>> /\ usuarios = <<>> /\ pedidos = <<>>
    /\ admin = AdminPadrao
    /\ configPagamento = ConfigPadrao
    /\ lsDados = <<>> /\ lsConfig = <<>>
    /\ checkoutAberto = FALSE
    /\ timers = <<>>
    /\ fecharPendentes = 0
    /\ db = "abrindo" /\ sitesStore = <<>> /\ managedSites = <<>> /\ leituras = 0
    /\ importando = <<>> /\ concluidas = 0
    /\ submetidos = <<>>

\* this.convertPlanToMinutes(plan) on each of the two plans
Converter ==
    /\ app = "calc"
    /\ calc.op = ""
    /\ calc' = [calc EXCEPT !.op = "convertPlanToMinutes",
                            !.out = << convertPlanToMinutes(calc.in[1]),
                                       convertPlanToMinutes(calc.in[2]) >>]
    /\ UNCHANGED <<app, ev, relogio, adminVars, shopVars, sitesVars, submetidos>>

SpecConversao == InitConversao /\ [][Converter]_vars

(***************************************************************************)
(* The removal of a cart line on its own                                   *)
(***************************************************************************)
\* the items whose lines make the carts, and the ids asked to be removed
ItensDoCarrinho == {DemoId("item", 1), DemoId("item", 2), DemoId("item", 3)}
IdsRemovidos == ItensDoCarrinho \cup {DemoId("item", 5)}

\* the cart lines adicionarAoCarrinho makes of the demo stock, in every order
\* and number up to MaxCarrinho
CarrinhosDados ==
    UNION {[1..n -> {BuscarItem(ProdutoresDemo, i)[1] : i \in ItensDoCarrinho}] :
              n \in 0..MaxCarrinho}

InitRemocao ==
    /\ app = "calc"
    /\ ev = Ev("DOMContentLoaded", "")
    /\ relogio = 0
    /\ \E cart \in CarrinhosDados, id \in IdsRemovidos :
          calc = [op |-> "", in |-> <<cart, id>>, out |-> <<>>]
    /\ users = getDefaultUsers
    /\ plans = getDefaultPlans
    /\ currentUser = <<>>
    /\ lsUsers = <<>> /\ lsPlans = <<>> /\ lsTools = <<>> /\ ssUser = <<>>
    /\ editId = <<>> /\ modalUsername = <<>>
    /\ usuarioLogado = NoPrincipal
    /\ carrinho = <<>> /\ produtores = <<>> /\ usuarios = <<>> /\ pedidos = <<>>
    /\ admin = AdminPadrao
    /\ configPagamento = ConfigPadrao
    /\ lsDados = <<>> /\ lsConfig = <<>>
    /\ checkoutAberto = FALSE
    /\ timers = <<>>
    /\ fecharPendentes = 0
    /\ db = "abrindo" /\ sitesStore = <<>> /\ managedSites = <<>> /\ leituras = 0
    /\ importando = <<>> /\ concluidas = 0
    /\ submetidos = <<>>

\* removerDoCarrinho(id) once, and once more on the cart the first call left
Remover ==
    /\ app = "calc"
    /\ calc.op = ""
    /\ calc' = [calc EXCEPT
                  !.op = "removerDoCarrinho",
                  !.out = << FiltrarCarrinho(calc.in[1], calc.in[2]),
                             FiltrarCarrinho(FiltrarCarrinho(calc.in[1], calc.in[2]),
                                             calc.in[2]) >>]
    /\ UNCHANGED <<app, ev, relogio, adminVars, shopVars, sitesVars, submetidos>>

SpecRemocao == InitRemocao /\ [][Remover]_vars

(***************************************************************************)
(* CentralApp with roles: the managed sites (src/app.js 73-124, 906-916).  *)
(* A promise is "resolvida" or "rejeitada" at once, or "pendente" on a     *)
(* request of the database that completes in a later task.                 *)
(***************************************************************************)
NomesDeSite == {"loja", ""}

\* variant: without a database the promise is rejected, as dbPut's is
dbGetAll_rejeita(d) ==
    IF d # "aberto" THEN [estado |-> "rejeitada", valor |-> <<>>]
    ELSE [estado |-> "pendente", valor |-> <<>>]

\* dbGetAll, on this.db as d
dbGetAll(d) ==
    IF d # "aberto" THEN [estado |-> "resolvida", valor |-> <<>>]
    ELSE [estado |-> "pendente", valor |-> <<>>]

\* dbPut up to the request it issues
dbPut(d) == IF d # "aberto" THEN "rejeitada" ELSE "pendente"

\* loadManagedSites up to the first task boundary: a promise resolved at once
\* is assigned before any other handler runs, a rejected one ends the function
loadManagedSites(d) ==
    LET list == dbGetAll(d)
    IN  CASE list.estado = "resolvida" ->
                /\ managedSites' = <<list.valor>>
                /\ UNCHANGED leituras
          [] list.estado = "pendente" ->
                /\ leituras < MaxLeituras
                /\ leituras' = leituras + 1
                /\ UNCHANGED managedSites
          [] list.estado = "rejeitada" -> UNCHANGED <<managedSites, leituras>>

\* app.loadManagedSites() called on its own
chamarLoadManagedSites ==
    /\ loadManagedSites(db)
    /\ ev' = Ev("loadManagedSites", dbGetAll(db).estado)
    /\ UNCHANGED <<relogio, adminVars, db, sitesStore, importando, concluidas>>

\* req.onsuccess of initSitesDB: this.db is set, then loadManagedSites()
initSitesDBSucesso ==
    /\ db = "abrindo"
    /\ db' = "aberto"
    /\ loadManagedSites(db')
    /\ ev' = Ev("initSitesDB", "onsuccess")
    /\ UNCHANGED <<relogio, adminVars, sitesStore, importando, concluidas>>

\* req.onerror of initSitesDB: only a warning
initSitesDBErro ==
    /\ db = "abrindo"
    /\ db' = "falhou"
    /\ ev' = Ev("initSitesDB", "onerror")
    /\ UNCHANGED <<relogio, adminVars, sitesStore, managedSites, leituras, importando,
                   concluidas>>

\* req.onsuccess of dbGetAll's getAll: the promise resolves to the contents of
\* the store and loadManagedSites assigns them
dbGetAllSucesso ==
    /\ leituras > 0
    /\ leituras' = leituras - 1
    /\ managedSites' = <<sitesStore>>
    /\ ev' = Ev("dbGetAll", "onsuccess")
    /\ UNCHANGED <<relogio, adminVars, db, sitesStore, importando, concluidas>>

\* store.put(site) on the store 'sites' (keyPath 'id'): the record of that
\* key is replaced, a new key is added; Date.now() never decreases, so a new
\* key is the last one
StorePut(store, site) ==
    LET k == FindIndex(store, LAMBDA r : r.id = site.id)
    IN  IF k = 0 THEN Append(store, site) ELSE [store EXCEPT ![k] = site]

\* name is the answer to the prompt ("" when it is cancelled)
handleCreateSiteManual(name) ==
    IF ~EhAdmin
    THEN /\ ev' = Ev("handleCreateSiteManual", "Apenas administradores podem criar sites.")
         /\ UNCHANGED <<relogio, adminVars, sitesVars>>
    ELSE IF name = ""
    THEN /\ ev' = Ev("handleCreateSiteManual", "")
         /\ UNCHANGED <<relogio, adminVars, sitesVars>>
    ELSE IF dbPut(db) = "rejeitada"
    THEN /\ ev' = Ev("handleCreateSiteManual", "DB nao inicializado")
         /\ UNCHANGED <<relogio, adminVars, sitesVars>>
    ELSE /\ relogio < MaxIds
         /\ relogio' = relogio + 1
         /\ sitesStore' = StorePut(sitesStore, [id |-> NowId("site", relogio'), name |-> name])
         /\ concluidas' = concluidas + 1
         /\ loadManagedSites(db)
         /\ ev' = Ev("handleCreateSiteManual", "criado")
         /\ UNCHANGED <<adminVars, db, importando>>

\* the files the administrator picks in siteFileInput (<<>>: none is picked)
ArquivosEscolhidos ==
    {<<>>, <<[nome |-> "pagina", ext |-> "html"]>>, <<[nome |-> "pacote", ext |-> "zip"]>>,
     <<[nome |-> "nota", ext |-> "txt"]>>}

\* handleImportSite up to its first await: importZipFile and importHTMLFile
\* start reading the file (window.JSZip is loaded)
handleImportSite(arquivo) ==
    IF ~EhAdmin
    THEN /\ ev' = Ev("handleImportSite", "Apenas administradores podem importar sites.")
         /\ UNCHANGED <<relogio, adminVars, sitesVars>>
    ELSE IF arquivo = <<>>
    THEN /\ ev' = Ev("handleImportSite", "Selecione um arquivo ZIP ou HTML")
         /\ UNCHANGED <<relogio, adminVars, sitesVars>>
    ELSE IF arquivo[1].ext \notin {"zip", "html"}
    THEN /\ ev' = Ev("handleImportSite", "Tipo de arquivo nao suportado")
         /\ UNCHANGED <<relogio, adminVars, sitesVars>>
    ELSE /\ Len(importando) < MaxImportacoes
         /\ importando' = Append(importando, arquivo[1])
         /\ ev' = Ev("handleImportSite", "lendo")
         /\ UNCHANGED <<relogio, adminVars, db, sitesStore, managedSites, leituras,
                        concluidas>>

\* the last handler took an id from Date.now(): a continuation that was
\* waiting for it to end can run within the same millisecond
IdRecemGerado ==
    \/ ev = Ev("handleCreateSiteManual", "criado")
    \/ ev = Ev("importarArquivo", "importado")

\* importZipFile and importHTMLFile once the file is read: id = Date.now(),
\* dbPut, loadManagedSites.  mesmoMs: Date.now() returns what it returned to
\* the handler that has just ended
importarArquivo(k, mesmoMs) ==
    /\ k \in 1..Len(importando)
    /\ mesmoMs => IdRecemGerado
    /\ importando' = SubSeq(importando, 1, k - 1) \o SubSeq(importando, k + 1, Len(importando))
    /\ IF dbPut(db) = "rejeitada"
       THEN /\ ev' = Ev("importarArquivo", "DB nao inicializado")
            /\ UNCHANGED <<relogio, adminVars, db, sitesStore, managedSites, leituras,
                           concluidas>>
       ELSE /\ IF mesmoMs THEN UNCHANGED relogio
               ELSE relogio < MaxIds /\ relogio' = relogio + 1
            /\ sitesStore' = StorePut(sitesStore, [id |-> NowId("site", relogio'),
                                                   name |-> importando[k].nome])
            /\ concluidas' = concluidas + 1
            /\ loadManagedSites(db)
            /\ ev' = Ev("importarArquivo", "importado")
            /\ UNCHANGED <<adminVars, db>>

\* a reload of the page with roles: new CentralApp() sets this.db = null and
\* opens the database again; the requests of the old page are gone
RecarregarSites ==
    /\ RecarregarCentral
    /\ db' = "abrindo"
    /\ managedSites' = <<>>
    /\ leituras' = 0
    /\ importando' = <<>>
    /\ UNCHANGED <<sitesStore, concluidas>>

\* a handler of the managed sites runs on the page with roles
NosSites == app = "admin" /\ UNCHANGED <<app, calc, shopVars, submetidos>>

NextSites ==
    \/ NoCentral("admin") /\ \E l \in LoginsCentral : handleLogin(l[1], l[2])
    \/ NoCentral("admin") /\ \E c \in BOOLEAN : handleLogout(c)
    \/ NosSites /\ initSitesDBSucesso
    \/ NosSites /\ initSitesDBErro
    \/ NosSites /\ chamarLoadManagedSites
    \/ NosSites /\ dbGetAllSucesso
    \/ NosSites /\ \E n \in NomesDeSite : handleCreateSiteManual(n)
    \/ NosSites /\ RecarregarSites

SpecSites == InitCentral("admin") /\ [][NextSites]_vars

\* the administrator creates and imports sites, and nothing is deleted
NextImportacao ==
    \/ NoCentral("admin") /\ handleLogin(U_admin, S_admin123)
    \/ NosSites /\ initSitesDBSucesso
    \/ NosSites /\ dbGetAllSucesso
    \/ NosSites /\ \E n \in NomesDeSite : handleCreateSiteManual(n)
    \/ NosSites /\ \E f \in ArquivosEscolhidos : handleImportSite(f)
    \/ NosSites /\ \E k \in 1..MaxImportacoes, b \in BOOLEAN : importarArquivo(k, b)

SpecImportacao == InitCentral("admin") /\ [][NextImportacao]_vars

(***************************************************************************)
(* The loaders on their own, on whatever the storage holds.  A stored item *)
(* is <<>> (no item) or <<[json, valor]>>: json tells whether its text is  *)
(* JSON, valor is the value the text then denotes.                         *)
(***************************************************************************)
SemItem == <<>>
TextoMalformado == << [json |-> FALSE, valor |-> <<>>] >>
TextoJson(v) == << [json |-> TRUE, valor |-> v] >>

\* the users and plans a page may have stored
UsuariosArmazenados ==
    {getDefaultUsers,
     Append(getDefaultUsers,
            [id |-> NowId("user", 1), username |-> U_ana, password |-> P_abcd,
             loginTime |-> Num(5), isAdmin |-> FALSE])}
PlanosArmazenados ==
    {getDefaultPlans, <<>>,
     <<[id |-> NowId("plan", 1), name |-> N_vip, value |-> 2, unit |-> "hours"]>>}

\* AppState.loadUserData: JSON.parse is not guarded, an exception leaves the
\* constructor of AppState (and of CentralApp)
loadUserData(stored, sessionUser) ==
    IF stored # <<>> /\ ~stored[1].json
    THEN [lancou |-> TRUE, users |-> <<>>, currentUser |-> <<>>]
    ELSE IF sessionUser # <<>> /\ ~sessionUser[1].json
         THEN [lancou |-> TRUE, users |-> <<>>, currentUser |-> <<>>]
    ELSE [lancou |-> FALSE,
          users |-> IF stored # <<>> THEN stored[1].valor ELSE getDefaultUsers,
          currentUser |-> IF sessionUser # <<>> THEN <<sessionUser[1].valor>> ELSE <<>>]

\* AppState.loadPlanData
loadPlanData(stored) ==
    IF stored # <<>> /\ ~stored[1].json THEN [lancou |-> TRUE, plans |-> <<>>]
    ELSE [lancou |-> FALSE,
          plans |-> IF stored # <<>> THEN stored[1].valor ELSE getDefaultPlans]

\* the properties of appState
CamposDoEstado ==
    {"usuarioLogado", "carrinho", "produtores", "usuarios", "pedidos", "admin",
     "configPagamento"}

\* the stored documents of the shop: objects with some of the properties of
\* appState (campos), of which usuarios, produtores and pedidos may hold
\* something that is not an array (arrays: those that hold one)
DocumentosArmazenados ==
    {[campos |-> c, arrays |-> a] :
        c \in SUBSET CamposDoEstado,
        a \in SUBSET {"usuarios", "produtores", "pedidos"}}

\* carregarDados: the properties appState has afterwards.  A text that is not
\* JSON throws inside the try; a document passes the check when usuarios,
\* produtores and pedidos are arrays, and then becomes appState as it is
carregarDados(stored) ==
    IF stored # <<>> /\ stored[1].json
       /\ {"usuarios", "produtores", "pedidos"} \subseteq stored[1].valor.campos
       /\ {"usuarios", "produtores", "pedidos"} \subseteq stored[1].valor.arrays
    THEN [lancou |-> FALSE, padrao |-> FALSE, campos |-> stored[1].valor.campos]
    ELSE [lancou |-> FALSE, padrao |-> TRUE, campos |-> CamposDoEstado]

InitCarga ==
    /\ app = "calc"
    /\ ev = Ev("DOMContentLoaded", "")
    /\ relogio = 0
    /\ \/ \E d \in {SemItem, TextoMalformado}
                    \cup {TextoJson(v) : v \in DocumentosArmazenados} :
             calc = [op |-> "", in |-> <<"carregarDados", d>>, out |-> <<>>]
       \/ \E u \in {SemItem, TextoMalformado}
                    \cup {TextoJson(v) : v \in UsuariosArmazenados},
             c \in {SemItem, TextoMalformado, TextoJson(getDefaultUsers[1])} :
             calc = [op |-> "", in |-> <<"loadUserData", u, c>>, out |-> <<>>]
       \/ \E d \in {SemItem, TextoMalformado}
                    \cup {TextoJson(v) : v \in PlanosArmazenados} :
             calc = [op |-> "", in |-> <<"loadPlanData", d>>, out |-> <<>>]
    /\ users = getDefaultUsers
    /\ plans = getDefaultPlans
    /\ currentUser = <<>>
    /\ lsUsers = <<>> /\ lsPlans = <<>> /\ lsTools = <<>> /\ ssUser = <<>>
    /\ editId = <<>> /\ modalUsername = <<>>
    /\ usuarioLogado = NoPrincipal
    /\ carrinho = <<>> /\ produtores = <<>> /\ usuarios = <<>> /\ pedidos = <<>>
    /\ admin = AdminPadrao
    /\ configPagamento = ConfigPadrao
    /\ lsDados = <<>> /\ lsConfig = <<>>
    /\ checkoutAberto = FALSE
    /\ timers = <<>>
    /\ fecharPendentes = 0
    /\ db = "abrindo" /\ sitesStore = <<>> /\ managedSites = <<>> /\ leituras = 0
    /\ importando = <<>> /\ concluidas = 0
    /\ submetidos = <<>>

\* the loader runs as the page is loaded
Carregar(loader) ==
    /\ app = "calc"
    /\ calc.op = ""
    /\ calc.in[1] = loader
    /\ calc' = [calc EXCEPT
                  !.op = loader,
                  !.out = CASE loader = "carregarDados" -> <<carregarDados(calc.in[2])>>
                            [] loader = "loadUserData" ->
                                  <<loadUserData(calc.in[2], calc.in[3])>>
                            [] loader = "loadPlanData" -> <<loadPlanData(calc.in[2])>>]
    /\ UNCHANGED <<app, ev, relogio, adminVars, shopVars, sitesVars, submetidos>>

NextCarga == Carregar("carregarDados") \/ Carregar("loadUserData") \/ Carregar("loadPlanData")

SpecCarga == InitCarga /\ [][NextCarga]_vars

(***************************************************************************)
(* Properties of the roles of CentralApp                                   *)
(***************************************************************************)
\* the principal of the page is an administrator
PrincipalAdmin == currentUser # <<>> /\ currentUser[1].isAdmin

\* the operations of the page that write the users, the plans or the tools
OperacoesDeEscrita ==
    {"handleCreateUser", "deleteUser", "saveLoginTime", "handleCreatePlan", "deletePlan",
     "handleChangeAdminPassword", "handleAddTool", "removeLocalTool", "clearAllData"}

\* C5: in the page with roles, while the principal is a regular user or absent,
\* no writing operation (create user, delete user, set allowance, create,
\* update or delete plan, change admin password, add or remove local tool,
\* clear all data) changes users, plans or their copies in localStorage.
C5_EscritaSoAdmin ==
    [][ (app = "admin" /\ ev'.op \in OperacoesDeEscrita /\ ~PrincipalAdmin)
            => UNCHANGED <<users, plans, lsUsers, lsPlans>> ]_vars

\* C6: create, update or delete of a plan with a principal that is not an
\* administrator is denied, and leaves plans, as a sequence, and its copy in
\* localStorage as they were.
C6_PlanosSoAdmin ==
    [][ (app = "admin" /\ ev'.op \in {"handleCreatePlan", "deletePlan"} /\ ~PrincipalAdmin)
            => /\ ev'.res \in {"Apenas administradores podem gerenciar planos.",
                               "Apenas administradores podem deletar planos."}
               /\ UNCHANGED <<plans, lsPlans>> ]_vars

\* a regular user is logged in and has just been denied the deletion of a plan
C6_Witness ==
    /\ app = "admin"
    /\ currentUser # <<>> /\ ~currentUser[1].isAdmin
    /\ ev = Ev("deletePlan", "Apenas administradores podem deletar planos.")
    /\ Len(plans) >= 1

(***************************************************************************)
(* Properties of the creation of accounts                                  *)
(***************************************************************************)
\* no two elements of the sequence give the same key
SemRepetidos(seq, Chave(_)) ==
    \A i \in 1..Len(seq), j \in 1..Len(seq) : i # j => Chave(seq[i]) # Chave(seq[j])

\* the step leaves the accounts of CentralApp and their copy as they were
CriacaoRecusada == ev'.res # "criado com sucesso!" /\ UNCHANGED <<users, lsUsers>>

\* the step of CentralApp is a create-user call with these fields, on any page
CriarUsuarioCom(u, p, x, t) ==
    \/ app = "admin" /\ handleCreateUser(u, p, x, t)
    \/ app = "plans" /\ handleCreateUserPlans(u, p, x, t)
    \/ app = "basic" /\ handleCreateUserBasic(u, p, t)

\* C8: whatever the sequence of operations, no two users of CentralApp share a
\* username and no two users of the shop share an email; a create-user call or
\* a registration whose username or email is already there is rejected and
\* leaves the collection and its copy in localStorage as they were.
C8_Unicidade ==
    /\ [](SemRepetidos(users, LAMBDA u : u.username)
            /\ SemRepetidos(usuarios, LAMBDA u : u.email))
    /\ [][ /\ ev'.op = "handleCreateUser" =>
                \A u \in UsernamesDigitados :
                    (\E k \in 1..Len(users) : users[k].username = Trim(u)) =>
                        \/ CriacaoRecusada
                        \/ ~\E p \in SenhasCentral, x \in populatePlanSelect(plans),
                              t \in TemposDigitados : CriarUsuarioCom(u, p, x, t)
           /\ ev'.op = "handleRegistroForm" =>
                \A e \in EmailsDigitados :
                    (\E k \in 1..Len(usuarios) : usuarios[k].email = Sanitizar(e)) =>
                        \/ /\ ev'.res # "Cadastro realizado com sucesso!"
                           /\ UNCHANGED <<usuarios, lsDados>>
                        \/ ~\E n \in NomesDigitados, s \in SenhasRegistro,
                              c \in SenhasRegistro :
                              app = "shop" /\ handleRegistroForm(n, e, s, c) ]_vars

\* a visitor registered in the shop, and a later registration with an email
\* already there has just been rejected
C8_Witness ==
    /\ app = "shop"
    /\ ev = Ev("handleRegistroForm", "Email ja registrado")
    /\ Len(usuarios) > Len(UsuariosDemo)

\* the fields of the form are refused by the checks of the new account
CamposRecusados(u, p) ==
    \/ Len(Trim(u)) < 3
    \/ Len(p) < 4
    \/ \E k \in 1..Len(users) : users[k].username = Trim(u)

\* the selection resolves to an allowance on the page with roles
SelecaoValida(x, t) ==
    \/ x.kind = "plan" /\ \E k \in 1..Len(plans) : plans[k].id = x.id
    \/ x.kind = "custom" /\ IsNum(ParseInt(t)) /\ ParseInt(t)[2] >= 1

\* the step appends a user that is not an administrator, with these fields,
\* and saves the collection
UsuarioAcrescentado(u, p) ==
    /\ Len(users') = Len(users) + 1
    /\ SubSeq(users', 1, Len(users)) = users
    /\ users'[Len(users')].username = Trim(u)
    /\ users'[Len(users')].password = p
    /\ ~users'[Len(users')].isAdmin
    /\ lsUsers' # <<>>
    /\ [k \in 1..Len(users') |-> lsUsers'[1][k].username]
         = [k \in 1..Len(users') |-> users'[k].username]

\* C9: a create-user call whose username has less than 3 characters, whose
\* password has less than 4, or whose username equals, case-sensitively, that of
\* an existing user fails and leaves users and its copy in localStorage as they
\* were; otherwise, for an administrator and a valid selection of the allowance,
\* a user that is not an administrator is appended and saved in the same step.
C9_CriarUsuario ==
    [][ ev'.op = "handleCreateUser" =>
           \A u \in UsernamesDigitados, p \in SenhasCentral :
               IF CamposRecusados(u, p)
               THEN \/ CriacaoRecusada
                    \/ ~\E x \in populatePlanSelect(plans), t \in TemposDigitados :
                          CriarUsuarioCom(u, p, x, t)
               ELSE PrincipalAdmin =>
                      \A x \in populatePlanSelect(plans), t \in TemposDigitados :
                          SelecaoValida(x, t) =>
                              \/ UsuarioAcrescentado(u, p)
                              \/ ~CriarUsuarioCom(u, p, x, t) ]_vars

\* the administrator created "ana" and "Ana", and a further call for a username
\* already there has just failed
C9_Witness ==
    /\ app = "admin"
    /\ PrincipalAdmin
    /\ ev = Ev("handleCreateUser", "Este usuario ja existe!")
    /\ \E i \in 1..Len(users), j \in 1..Len(users) :
          users[i].username = U_ana /\ users[j].username = U_Ana

\* C10: whatever the selection the form submits, a create-user call is either
\* rejected and creates nothing, or creates a user whose allowance is a whole
\* number of minutes of at least 1.
C10_FranquiaMinima ==
    [][ ev'.op = "handleCreateUser" =>
           \/ CriacaoRecusada
           \/ /\ ev'.res = "criado com sucesso!"
              /\ Len(users') = Len(users) + 1
              /\ IsNum(users'[Len(users')].loginTime)
              /\ users'[Len(users')].loginTime[2] >= 1 ]_vars

(***************************************************************************)
(* Properties of plans and allowances                                      *)
(***************************************************************************)
\* the minutes in one unit of a plan; an unknown unit counts as minutes
FatorDaUnidade(unit) ==
    CASE unit = "hours" -> 60
      [] unit = "days" -> 1440
      [] unit = "weeks" -> 10080
      [] unit = "months" -> 43200
      [] OTHER -> 1

\* max(1, value * unitFactor)
MinutosDoPlano(plan) ==
    IF plan.value * FatorDaUnidade(plan.unit) >= 1
    THEN plan.value * FatorDaUnidade(plan.unit) ELSE 1

\* C11: a user created by selecting an existing plan p gets the allowance
\* convertToMinutes(p) of the plan as it is at creation; the plan of 1 week
\* gives 10080 minutes.
C11_FranquiaDoPlano ==
    [][ (ev'.op = "handleCreateUser" /\ ev'.res = "criado com sucesso!") =>
           \A k \in 1..Len(plans) :
               handleCreateUser(U_ana, P_abcd, SelPlano(plans[k].id), <<"5">>) =>
                   /\ Len(users') = Len(users) + 1
                   /\ users'[Len(users')].loginTime = Num(MinutosDoPlano(plans[k]))
                   /\ (plans[k].unit = "weeks" /\ plans[k].value = 1) =>
                          users'[Len(users')].loginTime = Num(10080) ]_vars

\* "ana" has just been created from the plan of 1 week
C11_Witness ==
    /\ app = "admin"
    /\ ev = Ev("handleCreateUser", "criado com sucesso!")
    /\ \E k \in 1..Len(plans) : plans[k].unit = "weeks" /\ plans[k].value = 1
    /\ users[Len(users)].username = U_ana
    /\ users[Len(users)].loginTime = Num(10080)

\* C12: after a set-allowance call the allowance of every user is either what
\* it was, or, for the user of the modal, the value requested, which is then a
\* whole number of minutes of at least 1.
C12_FranquiaAjustada ==
    [][ ev'.op = "saveLoginTime" =>
           \A t \in TemposDigitados :
               saveLoginTime(t) =>
                   /\ Len(users') = Len(users)
                   /\ \A k \in 1..Len(users) :
                         \/ users'[k].loginTime = users[k].loginTime
                         \/ /\ modalUsername = <<users[k].username>>
                            /\ users'[k].loginTime = ParseInt(t)
                            /\ IsNum(users'[k].loginTime)
                            /\ users'[k].loginTime[2] >= 1 ]_vars

\* a plan of 5 of an unknown unit has been converted as if it were in minutes,
\* and a plan of a negative value to 1 minute
C13_Witness ==
    /\ calc.op = "convertPlanToMinutes"
    /\ calc.in[1].unit = "years" /\ calc.in[1].value = 5 /\ calc.out[1] = 5
    /\ calc.in[2].value < 0 /\ calc.out[2] = 1

\* C13: convertToMinutes(plan) is max(1, round(value * unitFactor)), the factor
\* being 1, 60, 1440, 10080 and 43200 for minutes, hours, days, weeks and months
\* and 1 for any other unit; it gives a value for every plan and changes no
\* state.
C13_Conversao ==
    /\ [](calc.op = "convertPlanToMinutes" =>
             \A k \in 1..Len(calc.in) : calc.out[k] = MinutosDoPlano(calc.in[k]))
    /\ [][calc'.op = "convertPlanToMinutes" => UNCHANGED <<adminVars, shopVars, sitesVars>>]_vars

\* C14: a plan of value > 0 converts to at least 1 minute, and for a fixed unit
\* the conversion is monotonic: v1 <= v2 gives convertToMinutes(v1, unit) <=
\* convertToMinutes(v2, unit).
C14_Monotonia ==
    calc.op = "convertPlanToMinutes" =>
        /\ \A k \in 1..Len(calc.in) : calc.in[k].value > 0 => calc.out[k] >= 1
        /\ calc.in[1].value <= calc.in[2].value => calc.out[1] <= calc.out[2]

\* two plans of positive values, the first the smaller, have been converted to
\* different minute counts
C14_Witness ==
    /\ calc.op = "convertPlanToMinutes"
    /\ calc.in[1].value > 0 /\ calc.in[1].value < calc.in[2].value
    /\ calc.out[1] >= 1 /\ calc.out[1] < calc.out[2]

\* C15: whatever is typed into the plan form, after any sequence of plan
\* creations and updates every plan of the collection has a value > 0.
C15_ValorPositivo == \A k \in 1..Len(plans) : plans[k].value > 0

\* C16: deleting or updating a plan leaves the allowance of every existing
\* user as it was, the users created from that plan included.
C16_FranquiaPorValor ==
    [][ (ev'.op \in {"deletePlan", "handleCreatePlan"}) =>
           /\ Len(users') = Len(users)
           /\ \A k \in 1..Len(users) : users'[k].loginTime = users[k].loginTime
           /\ lsUsers' = lsUsers ]_vars

\* "ana" was created from the plan of 1 week, and that plan has just been deleted
C16_Witness ==
    /\ app = "admin"
    /\ ev = Ev("deletePlan", "deletado")
    /\ \A k \in 1..Len(plans) : plans[k].id # DemoId("plan", 3)
    /\ \E k \in 1..Len(users) :
          users[k].username = U_ana /\ users[k].loginTime = Num(10080)

(***************************************************************************)
(* Properties of the cart                                                  *)
(***************************************************************************)
\* C17: addItem changes the cart only when a principal is authenticated and an
\* item of the given id is in some producer's stock and available; with no
\* principal, or with no available item of that id, the cart is as it was.
C17_AdicionarAoCarrinho ==
    [][ ev'.op = "adicionarAoCarrinho" =>
           /\ \A id \in ItemIdsClicados :
                 (usuarioLogado = NoPrincipal \/ TRUE \notin Disponiveis(produtores, id)) =>
                     (carrinho' = carrinho \/ ~adicionarAoCarrinho(id))
           /\ carrinho' # carrinho =>
                 /\ usuarioLogado # NoPrincipal
                 /\ Len(carrinho') = Len(carrinho) + 1
                 /\ SubSeq(carrinho', 1, Len(carrinho)) = carrinho
                 /\ TRUE \in Disponiveis(produtores, carrinho'[Len(carrinho')].id) ]_vars

\* a customer who bought an item has just been refused adding it again
C17_Witness ==
    /\ ev = Ev("adicionarAoCarrinho", "Item nao disponivel")
    /\ usuarioLogado # NoPrincipal
    /\ pedidos # <<>>
    /\ \E id \in ItemIdsClicados : Disponiveis(produtores, id) = {FALSE}

\* C18: in every reachable state no two lines of the cart have the same item
\* id; an addItem for an id already in the cart is rejected and leaves the cart
\* as it was.
C18_CarrinhoSemRepetidos ==
    /\ [](\A i \in 1..Len(carrinho), j \in 1..Len(carrinho) :
             i # j => carrinho[i].id # carrinho[j].id)
    /\ [][ ev'.op = "adicionarAoCarrinho" =>
              \A id \in ItemIdsClicados :
                  (\E k \in 1..Len(carrinho) : carrinho[k].id = id) =>
                      \/ /\ carrinho' = carrinho
                         /\ ev'.res # "Produto adicionado ao carrinho!"
                      \/ ~adicionarAoCarrinho(id) ]_vars

\* with two lines in the cart, adding one of them again has just been refused
C18_Witness ==
    /\ ev = Ev("adicionarAoCarrinho", "Item ja esta no carrinho")
    /\ Len(carrinho) = 2

RECURSIVE OutrasLinhas(_, _)
\* the lines of the cart whose id is not this one, in the order of the cart
OutrasLinhas(cart, id) ==
    IF cart = <<>> THEN <<>>
    ELSE IF Head(cart).id = id THEN OutrasLinhas(Tail(cart), id)
    ELSE <<Head(cart)>> \o OutrasLinhas(Tail(cart), id)

\* C19: removeItem is idempotent: for every cart and every id, removing the id
\* twice in a row gives the cart that removing it once gives; removing an id
\* that is not in the cart leaves it as it was; the lines of the other ids keep
\* their order.
C19_RemocaoIdempotente ==
    calc.op = "removerDoCarrinho" =>
        /\ calc.out[2] = calc.out[1]
        /\ calc.out[1] = OutrasLinhas(calc.in[1], calc.in[2])
        /\ (\A k \in 1..Len(calc.in[1]) : calc.in[1][k].id # calc.in[2]) =>
               calc.out[1] = calc.in[1]

\* an id has been removed from a cart of three lines that has it in the middle,
\* and the two other lines are left in their order
C19_Witness ==
    /\ calc.op = "removerDoCarrinho"
    /\ Len(calc.in[1]) = 3
    /\ calc.in[1][2].id = calc.in[2]
    /\ calc.in[1][1].id # calc.in[2] /\ calc.in[1][3].id # calc.in[2]
    /\ calc.out[1] = <<calc.in[1][1], calc.in[1][3]>>

(***************************************************************************)
(* Properties of the orders                                                *)
(***************************************************************************)
RECURSIVE SomaDasLinhas(_)
\* the sum of the prices of the lines, from the last line to the first
SomaDasLinhas(itens) ==
    IF itens = <<>> THEN Num(0)
    ELSE JsAdd(SomaDasLinhas(SubSeq(itens, 1, Len(itens) - 1)), itens[Len(itens)].preco)

\* C20: in every reachable state the total of every order is the sum of the
\* prices of the lines of that order.
C20_TotalDoPedido ==
    \A k \in 1..Len(pedidos) : pedidos[k].total = SomaDasLinhas(pedidos[k].itens)

(***************************************************************************)
(* Properties of the emitted orders                                        *)
(***************************************************************************)
\* an order without its status
SemStatus(o) == [o EXCEPT !.status = ""]

\* C21: an order, once appended, stays in the orders collection at its
\* position with every field other than status unchanged, whatever runs later
\* (cart changes, further checkouts, removal of an item or a producer,
\* logout, registrations), also after the page is loaded again
C21_PedidosImutaveis ==
    [][/\ Len(pedidos') >= Len(pedidos)
       /\ \A k \in 1..Len(pedidos) : SemStatus(pedidos'[k]) = SemStatus(pedidos[k])]_vars

(***************************************************************************)
(* Properties of the checkout validation                                   *)
(***************************************************************************)
\* a required field is filled in: it holds a character that is not white space
Preenchido(v) == \E i \in 1..Len(v) : ~IsSpace(v[i])

\* the card number, without its white space, is 16 digits
CartaoValido(v) ==
    LET d == SelectSeq(v, LAMBDA c : ~IsSpace(c))
    IN  Len(d) = 16 /\ \A i \in 1..16 : IsDigit(d[i])

\* MM/AA
ValidadeValida(v) ==
    /\ Len(v) = 5
    /\ v[3] = "/"
    /\ \A i \in {1, 2, 4, 5} : IsDigit(v[i])

CvvValido(v) == Len(v) = 3 /\ \A i \in 1..3 : IsDigit(v[i])

\* the checks in their order, each with whether it fails and the error it reports
VerificacoesDaCompra(dados) ==
    [k \in 1..Len(RequiredFields) |->
        [falha |-> ~Preenchido(dados[RequiredFields[k]]),
         erro |-> "Campo " \o RequiredFields[k] \o " obrigatorio"]]
    \o << [falha |-> ~validarEmail(dados.email), erro |-> "Email invalido"],
          [falha |-> ~CartaoValido(dados.cartao),
           erro |-> "Numero de cartao invalido (16 digitos)"],
          [falha |-> ~ValidadeValida(dados.validade), erro |-> "Validade invalida (MM/AA)"],
          [falha |-> ~CvvValido(dados.cvv), erro |-> "CVV invalido (3 digitos)"] >>

\* the error of the first check that fails, "" when every check passes
PrimeiroErro(dados) ==
    LET vs == VerificacoesDaCompra(dados)
    IN  IF \A k \in 1..Len(vs) : ~vs[k].falha THEN ""
        ELSE vs[CHOOSE k \in 1..Len(vs) :
                    vs[k].falha /\ \A j \in 1..(k - 1) : ~vs[j].falha].erro

\* what a submission of the form raw must leave behind
CheckoutValidado(raw) ==
    LET dados == DadosDoFormulario(raw)
        erro == PrimeiroErro(dados)
    IN  IF erro = ""
        THEN ev'.res = "Processando pagamento..." /\ timers' = Append(timers, dados)
        ELSE /\ ev'.res = erro
             /\ UNCHANGED <<timers, carrinho, produtores, pedidos, usuarios, lsDados>>

\* C22: a submitted checkout form is checked in a fixed order (the required
\* fields in their order, then email, card number, expiry, CVV); the error
\* shown is that of the first failing check alone, and when a check fails no
\* payment is started and cart, stock and orders stay as they were
C22_ValidacaoDaCompra ==
    [][ev'.op = "handleCheckoutForm" =>
          \A raw \in FormulariosDigitados :
              CheckoutValidado(raw) \/ ~handleCheckoutForm(raw)]_vars

\* a form with a malformed email and a blank CVV was refused for the CVV (the
\* required fields come first), with the cart kept and no payment pending
C22_Witness ==
    /\ ev = Ev("handleCheckoutForm", "Campo cvv obrigatorio")
    /\ checkoutAberto
    /\ carrinho # <<>>
    /\ timers = <<>>
    /\ pedidos = <<>>

(***************************************************************************)
(* Properties of clearAllData                                              *)
(***************************************************************************)
\* the step is a clearAllData with both dialogs accepted
DadosResetados ==
    /\ ev'.op = "clearAllData"
    /\ ev'.res = "Todos os dados foram resetados!"

\* C23: after a clearAllData with both dialogs accepted no principal is
\* authenticated: currentUser is null and sessionStorage holds no
\* 'currentUser', as after a logout
C23_ResetEncerraSessao ==
    [][DadosResetados => (currentUser' = <<>> /\ ssUser' = <<>>)]_vars

\* what a page load reads from localStorage 'users' and 'plans'
UsuariosGuardados == IF lsUsers # <<>> THEN lsUsers[1] ELSE getDefaultUsers
PlanosGuardados == IF lsPlans # <<>> THEN lsPlans[1] ELSE getDefaultPlans

\* C24: clearAllData changes nothing unless both dialogs are accepted; when
\* they are, the users are the default users and the plans the default plans,
\* in memory and in localStorage
C24_ResetParaPadrao ==
    [][ev'.op = "clearAllData" =>
          IF ev'.res = "Todos os dados foram resetados!"
          THEN /\ users' = getDefaultUsers
               /\ UsuariosGuardados' = getDefaultUsers
               /\ app # "basic" => (plans' = getDefaultPlans
                                    /\ PlanosGuardados' = getDefaultPlans)
          ELSE UNCHANGED adminVars]_vars

(***************************************************************************)
(* Properties of the loaders                                               *)
(***************************************************************************)
\* the stored item is missing or its text cannot be parsed
SemDocumento(item) == item = <<>> \/ ~item[1].json

\* C25: no loader throws, whatever the storage holds; a missing or unparsable
\* item gives the default users, the default plans or the default document,
\* and the state of the shop has every property of appState after the load
C25_CargaSemFalha ==
    calc.op \in {"carregarDados", "loadUserData", "loadPlanData"} =>
        /\ ~calc.out[1].lancou
        /\ calc.op = "carregarDados" =>
              /\ calc.out[1].campos \cup {"configPagamento"} = CamposDoEstado
              /\ SemDocumento(calc.in[2]) => calc.out[1].padrao
        /\ (calc.op = "loadUserData" /\ SemDocumento(calc.in[2])) =>
              calc.out[1].users = getDefaultUsers
        /\ (calc.op = "loadPlanData" /\ SemDocumento(calc.in[2])) =>
              calc.out[1].plans = getDefaultPlans

(***************************************************************************)
(* Properties of the managed sites                                         *)
(***************************************************************************)
\* C26: a loadManagedSites (the caller of dbGetAll) that runs while the
\* database is not initialized, still opening or failed, has its get-all
\* resolved, never rejected, with the empty list, which becomes the list of
\* managed sites
C26_SemBancoListaVazia ==
    [][(ev'.op = "loadManagedSites" /\ db # "aberto") =>
          (ev'.res = "resolvida" /\ managedSites' = << <<>> >>)]_vars

\* the store holds a site of an earlier page load, the database failed to
\* open on this one, and the get-all left the list empty
C26_Witness ==
    /\ ev = Ev("loadManagedSites", "resolvida")
    /\ db = "falhou"
    /\ sitesStore # <<>>
    /\ managedSites = << <<>> >>

(***************************************************************************)
(* Properties of the logins                                                *)
(***************************************************************************)
\* the step of CentralApp is a login with these fields, on any page
LoginCentralCom(l) ==
    \/ app = "admin" /\ handleLogin(l[1], l[2])
    \/ app \in {"plans", "basic"} /\ handleLoginSoAdmin(l[1], l[2])

\* a login of CentralApp with the fields l either made a stored user of that
\* username and password the principal, or changed nothing
LoginCentralFechado(l) ==
    /\ (ev'.res = "" \/ currentUser' # currentUser \/ ssUser' # ssUser) =>
          \E k \in 1..Len(users) :
              /\ users[k].username = Trim(l[1])
              /\ users[k].password = l[2]
              /\ currentUser' # <<>>
              /\ currentUser'[1].username = users[k].username
              /\ currentUser'[1].isAdmin = users[k].isAdmin
              /\ ssUser' = currentUser'
              /\ UNCHANGED <<users, plans, lsUsers, lsPlans>>
    /\ ev'.res # "" => UNCHANGED adminVars

\* a login of the shop with email e and password s, checked against the
\* record stored (a user or the administrator), either made it the principal
\* or changed nothing
LoginLojaFechado(e, s, registros, sucesso) ==
    /\ (ev'.res = sucesso \/ usuarioLogado' # usuarioLogado) =>
          \E r \in registros :
              /\ r.email = Sanitizar(e)
              /\ r.senhaHash = hashSenhaSimples(s)
              /\ Deref(usuarioLogado', usuarios', admin') = <<r>>
              /\ UNCHANGED <<usuarios, produtores, pedidos, admin, carrinho>>
    /\ ev'.res # sucesso => UNCHANGED shopVars

\* C27: a login makes a principal only of a stored user (in the shop a stored
\* user, or the administrator's record for the admin form) whose identifier
\* and credential are those submitted; a login that fails leaves the principal
\* and every collection as they were
C27_LoginFechado ==
    [][/\ ev'.op = "handleLogin" =>
             \A l \in LoginsCentral : LoginCentralFechado(l) \/ ~LoginCentralCom(l)
       /\ ev'.op = "handleLoginForm" =>
             \A e \in EmailsDigitados, s \in SenhasDigitadas :
                 \/ LoginLojaFechado(e, s, {usuarios[k] : k \in 1..Len(usuarios)},
                                     "Login realizado com sucesso!")
                 \/ ~(app = "shop" /\ handleLoginForm(e, s))
       /\ ev'.op = "handleLoginAdminForm" =>
             \A e \in EmailsDigitados, s \in SenhasDigitadas :
                 \/ LoginLojaFechado(e, s, {admin}, "Login admin realizado com sucesso!")
                 \/ ~(app = "shop" /\ handleLoginAdminForm(e, s))]_vars

\* with a customer logged in, a login with a wrong password has just failed
C27_Witness ==
    /\ app = "shop"
    /\ ev = Ev("handleLoginForm", "Senha incorreta")
    /\ usuarioLogado # NoPrincipal
    /\ Logado[1].role = "user"

(***************************************************************************)
(* Properties of the persistence                                           *)
(***************************************************************************)
\* C28: at the end of every handler that changed the users or the plans of
\* CentralApp, or the users, the producers with their items, or the orders of
\* the shop, the copy in localStorage equals the collection in memory, so that
\* loading the page again restores exactly those collections
C28_MutarEPersistir ==
    [][/\ users' # users => lsUsers' = <<users'>>
       /\ plans' # plans => lsPlans' = <<plans'>>
       /\ <<usuarios', produtores', pedidos'>> # <<usuarios, produtores, pedidos>> =>
             /\ lsDados' # <<>>
             /\ lsDados'[1].usuarios = usuarios'
             /\ lsDados'[1].produtores = produtores'
             /\ lsDados'[1].pedidos = pedidos']_vars

(***************************************************************************)
(* Properties of the payment delay                                         *)
(***************************************************************************)
\* C29: when the payment timeout of a submitted checkout fires, whatever ran
\* during the delay (cart changes, logout, login, a second submission), the
\* checkout ends in one of two ways: approved, with one order appended and the
\* cart empty, or declined, with cart, stock and orders unchanged; the
\* callback never ends in an exception
C29_CompraResolvida ==
    [][(timers # <<>> /\ ev'.op \in {"finalizarCompraComSucesso", "processarPagamento"}) =>
          \/ /\ CompraAprovada
             /\ Len(pedidos') = Len(pedidos) + 1
             /\ carrinho' = <<>>
          \/ /\ CompraRecusada
             /\ UNCHANGED <<carrinho, produtores, pedidos>>]_vars

\* C30: the lines of an emitted order are the cart lines of the moment its
\* checkout form was submitted, also when lines were added or removed, or
\* another checkout completed, before the payment timeout fired
C30_LinhasDaSubmissao ==
    [][CompraAprovada => pedidos'[Len(pedidos')].itens = Head(submetidos).carrinho]_vars

\* C31: the buyer an emitted order records is the principal that was
\* authenticated when its checkout form was submitted, also when a logout
\* and another login or a registration happened before the timeout fired
C31_CompradorDaSubmissao ==
    [][CompraAprovada =>
          /\ Head(submetidos).comprador # <<>>
          /\ pedidos'[Len(pedidos')].usuarioId = Head(submetidos).comprador[1]]_vars

\* C32: in every reachable state every cart line stands for an item that is
\* in the stock of some producer and is available there; removing an item or
\* a producer leaves no cart line that points at a missing item
C32_CarrinhoEmEstoque ==
    \A k \in 1..Len(carrinho) : Disponiveis(produtores, carrinho[k].id) = {TRUE}

\* the items in stock that carry this id
EmEstoque(ps, itemId) == {it \in ItensDe(ps) : it.id = itemId}

\* C33: at every handler boundary every item that is a line of some order
\* and is still in stock is unavailable, and an item that is unavailable
\* is never available again, whatever is added to the stock afterwards
C33_VendidoFicaIndisponivel ==
    /\ [](\A o \in 1..Len(pedidos) : \A k \in 1..Len(pedidos[o].itens) :
            \A it \in EmEstoque(produtores, pedidos[o].itens[k].id) : ~it.disponivel)
    /\ [][\A it \in ItensDe(produtores) :
            ~it.disponivel => \A jt \in EmEstoque(produtores', it.id) : ~jt.disponivel]_vars

\* an item was sold and is still in stock, unavailable, right after the
\* administrator added another item to the stock
C33_Witness ==
    /\ ev = Ev("handleNovoItemForm", "Item adicionado com sucesso!")
    /\ \E o \in 1..Len(pedidos) : \E k \in 1..Len(pedidos[o].itens) :
          /\ EmEstoque(produtores, pedidos[o].itens[k].id) # {}
          /\ \A it \in EmEstoque(produtores, pedidos[o].itens[k].id) : ~it.disponivel
    /\ \E it \in ItensDe(produtores) : it.disponivel

\* the order ids a record of the users collection lists
PedidosDoUsuario(us, id) ==
    UNION { {us[k].pedidos[j] : j \in 1..Len(us[k].pedidos)} :
            k \in {i \in 1..Len(us) : us[i].id = id} }

\* C34: after an approved checkout by a regular user the id of the new order
\* is in the order list of that user's record in the users collection, also
\* when the session had been restored from storage by a page reload
C34_PedidoNoRegistro ==
    [][(CompraAprovada /\ Logado[1].role = "user") =>
          pedidos'[Len(pedidos')].id \in
              PedidosDoUsuario(usuarios', pedidos'[Len(pedidos')].usuarioId)]_vars

\* C35: in the shop, at every handler boundary with no authenticated
\* principal the cart is empty: the logout empties it, and a page load that
\* restores a state without a principal empties it before any other handler
C35_SemPrincipalSemCarrinho ==
    (app = "shop" /\ ~usuarioEstaLogado) => carrinho = <<>>

\* a customer who had opened the checkout on a cart has logged out
C35_Witness ==
    /\ ev = Ev("handleLogout", "")
    /\ ~usuarioEstaLogado
    /\ checkoutAberto
    /\ carrinho = <<>>

\* C36: the administrator's account cannot be lost: after any sequence of
\* creating users, deleting users by any username, setting allowances,
\* changing the administrator's password and clearing all data, the users
\* collection holds at least one user with isAdmin = true
C36_AdminPermanece ==
    app \in {"admin", "basic"} => \E k \in 1..Len(users) : users[k].isAdmin

\* the step is an operation that changes the users or the plans, in memory or
\* in localStorage (a page load only reads what localStorage holds)
MudaContasOuPlanos ==
    /\ ev'.op # "DOMContentLoaded"
    /\ users' # users \/ plans' # plans \/ lsUsers' # lsUsers \/ lsPlans' # lsPlans

PlanoSubmetido ==
    /\ ev'.op = "handleCreatePlan"
    /\ ev'.res \notin {"Apenas administradores podem gerenciar planos.",
                       "Nome do plano e obrigatorio"}

\* C38: every submission of the plan form by an administrator with a
\* non-empty name appends a plan or updates the plan being edited, and saves
\* the plans; after the plan open for editing was deleted the next valid
\* submission still does so and the form does not stay in edit mode
C38_FormularioDePlano ==
    [][PlanoSubmetido =>
          /\ \/ ev'.res = "criado" /\ Len(plans') = Len(plans) + 1
             \/ ev'.res = "atualizado" /\ Len(plans') = Len(plans)
          /\ lsPlans' = savePlans(plans')
          /\ editId' = <<>>]_vars

\* C39: creating or importing a managed site never removes or overwrites
\* another site: with no delete, the store holds one record for each create
\* or import operation that completed
C39_UmRegistroPorOperacao ==
    app = "admin" => Len(sitesStore) = concluidas

====
